---------------------------- MODULE Spec2Model ----------------------------
(***************************************************************************)
(* Type inference engine of ts2c (src/types.ts, class TypeHelper).         *)
(*                                                                         *)
(* A program is a sequence of statements over declaration slots.  Slot v   *)
(* is the declaration position of a variable, a parameter or a function    *)
(* name; slots are numbered in textual order, which is also the order of   *)
(* Object.keys(this.variables) (integer keys iterate in ascending order).  *)
(* Evidence collection (findVariablesRecursively) visits the statements in *)
(* textual order; the resolver (resolvePromisesAndFinalizeTypes) then      *)
(* iterates over the slots until a pass discharges nothing.                *)
(*                                                                         *)
(* Objects with identity (ArrayType, StructType, DictType) live in heaps   *)
(* and are referred to by index, so in-place mutation and sharing are      *)
(* visible.  Dictionaries keep their key insertion order.                  *)
(***************************************************************************)
EXTENDS Integers, Sequences, FiniteSets, TLC

\* ------------------------------------------------------------------------
\* Bounds of the model
\* ------------------------------------------------------------------------

\* number of declaration slots of a program
NVars == 4

\* number of statements visited by evidence collection
MaxStmts == 4

\* number of variables of the programs over arrays and over records
NObjVars == 2

\* number of elements of an array literal
MaxElems == 2

\* number of names handed out by the naming allocators
MaxTemps == 4

\* ------------------------------------------------------------------------
\* Type values
\* ------------------------------------------------------------------------

UniversalVarType == "struct js_var *"

PointerVarType == "void *"

StringVarType == "const char *"

NumberVarType == "int16_t"

BooleanVarType == "uint8_t"

VoidType == "void"

\* CType = string | StructType | ArrayType | DictType; objects are heap refs
Prim(s) == [k |-> "prim", s |-> s, r |-> 0]

ArrRef(i) == [k |-> "arr", s |-> "", r |-> i]

StructRef(i) == [k |-> "struct", s |-> "", r |-> i]

DictRef(i) == [k |-> "dict", s |-> "", r |-> i]

\* undefined / null / false
NoType == [k |-> "none", s |-> "", r |-> 0]

IsType(t) == t.k # "none"

IsString(t) == t.k = "prim"

IsArray(t) == t.k = "arr"

IsStruct(t) == t.k = "struct"

IsDict(t) == t.k = "dict"

IsPrim(t, s) == t.k = "prim" /\ t.s = s

\* ------------------------------------------------------------------------
\* JavaScript objects used as dictionaries: sequences of [key, val] in key
\* insertion order
\* ------------------------------------------------------------------------

DKeys(d) == [i \in 1..Len(d) |-> d[i].key]

DHas(d, key) == \E i \in 1..Len(d) : d[i].key = key

DIndex(d, key) == CHOOSE i \in 1..Len(d) : d[i].key = key

DGet(d, key) == IF DHas(d, key) THEN d[DIndex(d, key)].val ELSE NoType

DSet(d, key, val) ==
    IF DHas(d, key)
    THEN [d EXCEPT ![DIndex(d, key)].val = val]
    ELSE Append(d, [key |-> key, val |-> val])

DDel(d, key) == SelectSeq(d, LAMBDA e : e.key # key)

\* ------------------------------------------------------------------------
\* ArrayType.getText, StructType.getText, DictType.getText
\* ------------------------------------------------------------------------

RECURSIVE GetText(_, _)
GetText(S, t) ==
    CASE t.k = "prim" -> t.s
      [] t.k = "arr" ->
            LET a == S.arrays[t.r] IN
            IF a.isDynamicArray
            THEN "ARRAY(" \o GetText(S, a.elementType) \o ")"
            ELSE "static " \o GetText(S, a.elementType) \o " {var}["
                 \o ToString(a.capacity) \o "]"
      [] t.k = "struct" -> S.structs[t.r].structName
      [] t.k = "dict" -> "DICT(" \o GetText(S, S.dicts[t.r].elementType) \o ")"
      [] OTHER -> "undefined"


\* ------------------------------------------------------------------------
\* The front-end: expression nodes with their kind and the answer of the
\* type checker (getTypeAtLocation) for them
\* ------------------------------------------------------------------------

\* ts.Type as seen by convertType: flags and, for an object type, the
\* properties (name and flag of the property's own type)
TsType(flag, props) == [flag |-> flag, props |-> props]

TsProp(name, flag) == [name |-> name, flag |-> flag]

\* ts.Node: kind, referenced declaration slot v, property or key name p,
\* key kind kk of an element access, element count n of an array literal,
\* apparent type ts, arguments of a call
Node(kind, v, p, kk, n, ts, args) ==
    [kind |-> kind, v |-> v, p |-> p, kk |-> kk, n |-> n, ts |-> ts, args |-> args]

NoNode == Node("none", 0, "", "", 0, TsType("void", <<>>), <<>>)

NumericLiteral == Node("NumericLiteral", 0, "", "", 0, TsType("number", <<>>), <<>>)

StringLiteral == Node("StringLiteral", 0, "", "", 0, TsType("string", <<>>), <<>>)

TrueKeyword == Node("TrueKeyword", 0, "", "", 0, TsType("boolean", <<>>), <<>>)

\* an identifier referring to slot v, of type ts at that location
TypedIdentifier(v, ts) == Node("Identifier", v, "", "", 0, ts, <<>>)

Identifier(v, flag) == TypedIdentifier(v, TsType(flag, <<>>))

\* v.p
PropertyAccessExpression(v, p, flag) ==
    Node("PropertyAccessExpression", v, p, "", 0, TsType(flag, <<>>), <<>>)

\* v["p"] (kk = "string"), v[0] (kk = "number"), v[k] (kk = "dynamic")
ElementAccessExpression(v, kk, p, flag) ==
    Node("ElementAccessExpression", v, p, kk, 0, TsType(flag, <<>>), <<>>)

\* f(args) with an identifier callee
CallExpression(f, args, flag) ==
    Node("CallExpression", f, "", "", 0, TsType(flag, <<>>), args)

\* v.pop(), v.push(arg), v.indexOf(arg)
MethodCall(v, name, args, flag) ==
    Node("MethodCall", v, name, "", 0, TsType(flag, <<>>), args)

\* { p1: .., p2: .. } with the properties the checker reports
ObjectLiteralExpression(props) ==
    Node("ObjectLiteralExpression", 0, "", "", 0, TsType("object", props), <<>>)

\* [e1, .., en]; ts is the type of the first element
ArrayLiteralExpression(n, flag) ==
    Node("ArrayLiteralExpression", 0, "", "", n, TsType(flag, <<>>), <<>>)

\* (v): a node kind getCType has no case for; ts is the checker's type of it
ParenthesizedExpression(v, ts) ==
    Node("ParenthesizedExpression", v, "", "", 0, ts, <<>>)

\* (v) for an untyped variable v
Parenthesized(v) == ParenthesizedExpression(v, TsType("any", <<>>))

\* ------------------------------------------------------------------------
\* TypePromise, and the CType | TypePromise values of the evidence tables
\* ------------------------------------------------------------------------

TypePromise(node, element) ==
    [isPromise |-> TRUE, type |-> NoType, associatedNode |-> node,
     element |-> element, resolved |-> FALSE, arrayOf |-> FALSE,
     associatedProperty |-> ""]

TypeValue(t) ==
    [isPromise |-> FALSE, type |-> t, associatedNode |-> NoNode,
     element |-> FALSE, resolved |-> FALSE, arrayOf |-> FALSE,
     associatedProperty |-> ""]

\* an absent table entry
Undefined == TypeValue(NoType)

\* ------------------------------------------------------------------------
\* The TypeHelper object
\* ------------------------------------------------------------------------

NewVariableInfo == [present |-> FALSE, type |-> NoType, requiresAllocation |-> FALSE]

NewVariableData ==
    [assignmentTypes |-> <<>>, typePromises |-> <<>>, addedProperties |-> <<>>,
     parameterIndex |-> 0, parameterFuncDeclPos |-> 0,
     objLiteralAssigned |-> FALSE, isDynamicArray |-> FALSE, isDict |-> FALSE]

NewTypeHelper(slots) ==
    [variables |-> [v \in slots |-> NewVariableInfo],
     variablesData |-> [v \in slots |-> NewVariableData],
     userStructs |-> <<>>,
     structs |-> <<>>,
     arrays |-> <<>>,
     dicts |-> <<>>,
     functionCallsData |-> [f \in slots |-> <<>>],
     functionReturnsData |-> [f \in slots |-> Undefined],
     functionReturnTypes |-> [f \in slots |-> NoType],
     functionPrototypes |-> {},
     arrayLiteralsTypes |-> <<>>,
     objectLiteralsTypes |-> <<>>,
     temporaryVariables |-> [scopeId \in {0} \cup slots |-> <<>>]]

\* a helper result: the object after the call and the returned value
Ret(S, val) == [S |-> S, val |-> val]

\* "let v = ..; Body": the value is computed once and named by Body's parameter
With(v, Body(_)) == Body(v)

\* ------------------------------------------------------------------------
\* getStructureBodyString
\* ------------------------------------------------------------------------

RECURSIVE ContainsVar(_, _)
ContainsVar(S, t) ==
    CASE t.k = "arr" ->
            \/ ~S.arrays[t.r].isDynamicArray
            \/ ContainsVar(S, S.arrays[t.r].elementType)
      [] t.k = "dict" -> ContainsVar(S, S.dicts[t.r].elementType)
      [] OTHER -> FALSE

\* propTypeText.replace("{var}", propName): the first occurrence only
RECURSIVE ReplaceVar(_, _, _)
ReplaceVar(S, t, propName) ==
    CASE t.k = "arr" ->
            LET a == S.arrays[t.r] IN
            IF a.isDynamicArray
            THEN "ARRAY(" \o ReplaceVar(S, a.elementType, propName) \o ")"
            ELSE IF ContainsVar(S, a.elementType)
                 THEN "static " \o ReplaceVar(S, a.elementType, propName)
                      \o " {var}[" \o ToString(a.capacity) \o "]"
                 ELSE "static " \o GetText(S, a.elementType) \o " " \o propName
                      \o "[" \o ToString(a.capacity) \o "]"
      [] t.k = "dict" ->
            "DICT(" \o ReplaceVar(S, S.dicts[t.r].elementType, propName) \o ")"
      [] OTHER -> GetText(S, t)

\* propTypeText.replace(/^static /, '').replace("{var}", propName)
ArrayPropText(S, t, propName) ==
    LET a == S.arrays[t.r] IN
    IF a.isDynamicArray
    THEN ReplaceVar(S, t, propName)
    ELSE IF ContainsVar(S, a.elementType)
         THEN ReplaceVar(S, a.elementType, propName)
              \o " {var}[" \o ToString(a.capacity) \o "]"
         ELSE GetText(S, a.elementType) \o " " \o propName
              \o "[" \o ToString(a.capacity) \o "]"

PropLine(S, propName, propType) ==
    IF IsArray(propType) /\ ContainsVar(S, propType)
    THEN "    " \o ArrayPropText(S, propType, propName) \o ";\n"
    ELSE "    " \o GetText(S, propType) \o " " \o propName \o ";\n"

RECURSIVE BodyLines(_, _, _)
BodyLines(S, properties, i) ==
    IF i > Len(properties) THEN ""
    ELSE PropLine(S, properties[i].key, properties[i].val)
         \o BodyLines(S, properties, i + 1)

getStructureBodyString(S, properties) ==
    "{\n" \o BodyLines(S, properties, 1) \o "};\n"

\* ------------------------------------------------------------------------
\* convertType, generateStructure
\* ------------------------------------------------------------------------

\* lines 706-717: the name generateStructure picks before it looks for an
\* equal body
NewStructName(S, varName) ==
    IF varName # ""
    THEN IF ~DHas(S.userStructs, varName \o "_t")
         THEN varName \o "_t"
         ELSE LET i == CHOOSE i \in 2..(Len(S.userStructs) + 2) :
                          /\ ~DHas(S.userStructs, varName \o "_" \o ToString(i) \o "_t")
                          /\ \A j \in 2..(i - 1) :
                                DHas(S.userStructs, varName \o "_" \o ToString(j) \o "_t")
              IN varName \o "_" \o ToString(i) \o "_t"
    ELSE "struct_" \o ToString(Len(S.userStructs)) \o "_t"

\* FindStructure with the loop left after its first iteration
FindStructureFirstOnly(S, userStructCode) ==
    IF /\ Len(S.userStructs) > 0
       /\ getStructureBodyString(S, S.structs[S.userStructs[1].val.r].properties)
             = userStructCode
    THEN 1 ELSE 0

\* lines 734-740: the first record of the table, in insertion order, with
\* this body (0: none)
FindStructure(S, userStructCode) ==
    With({i \in 1..Len(S.userStructs) :
             getStructureBodyString(S, S.structs[S.userStructs[i].val.r].properties)
                 = userStructCode},
         LAMBDA hits :
             IF hits = {} THEN 0 ELSE CHOOSE i \in hits : \A j \in hits : i <= j)

RECURSIVE convertType(_, _, _)
RECURSIVE ConvertProperties(_, _, _, _)

\* lines 719-728: the loop over tsType.getProperties()
ConvertProperties(S, props, i, userStructInfo) ==
    IF i > Len(props) THEN Ret(S, userStructInfo)
    ELSE With(convertType(S, TsType(props[i].flag, <<>>), props[i].name),
              LAMBDA c : ConvertProperties(c.S, props, i + 1,
                                           DSet(userStructInfo, props[i].name, c.val)))

\* lines 732-745: the record with this body is looked up when it has
\* properties, and registered under structName when none is found
RegisterStructure(S, structName, userStructInfo) ==
    With(IF Len(userStructInfo) > 0
         THEN FindStructure(S, getStructureBodyString(S, userStructInfo))
         ELSE 0,
         LAMBDA found :
             IF found # 0
             THEN Ret(S, S.userStructs[found].val)
             ELSE Ret([S EXCEPT
                         !.structs = Append(@, [structName |-> "struct " \o structName \o " *",
                                                properties |-> userStructInfo]),
                         !.userStructs = DSet(@, structName, StructRef(Len(S.structs) + 1))],
                      StructRef(Len(S.structs) + 1)))

generateStructure(S, tsType, varName) ==
    With(ConvertProperties(S, tsType.props, 1, <<>>),
         LAMBDA conv : RegisterStructure(conv.S, NewStructName(S, varName), conv.val))

convertType(S, tsType, varName) ==
    CASE tsType.flag = "void" -> Ret(S, Prim(VoidType))
      [] tsType.flag = "string" -> Ret(S, Prim(StringVarType))
      [] tsType.flag = "number" -> Ret(S, Prim(NumberVarType))
      [] tsType.flag = "boolean" -> Ret(S, Prim(BooleanVarType))
      [] tsType.flag = "object" /\ Len(tsType.props) > 0 ->
            generateStructure(S, tsType, varName)
      [] tsType.flag = "any" -> Ret(S, Prim(PointerVarType))
      [] OTHER -> Ret(S, Prim(UniversalVarType))

\* ------------------------------------------------------------------------
\* determineArrayType, determineType, addTypeToVariable
\* ------------------------------------------------------------------------

\* pos is the position of the literal node
determineArrayType(S, arrLiteral, pos) ==
    IF arrLiteral.n > 0
    THEN With(convertType(S, arrLiteral.ts, ""),
              LAMBDA conv :
                  Ret([conv.S EXCEPT
                         !.arrays = Append(@, [elementType |-> conv.val,
                                               capacity |-> arrLiteral.n,
                                               isDynamicArray |-> FALSE]),
                         !.arrayLiteralsTypes =
                             DSet(@, pos, ArrRef(Len(conv.S.arrays) + 1))],
                      TypeValue(ArrRef(Len(conv.S.arrays) + 1))))
    ELSE Ret(S, TypeValue(Prim(UniversalVarType)))

\* PromiseKinds with the parenthesized expression among them
PromiseKindsAndParenthesized ==
    {"PropertyAccessExpression", "ElementAccessExpression", "Identifier",
     "CallExpression", "MethodCall", "ParenthesizedExpression"}

\* the node kinds of line 694-697 (a method call is a CallExpression)
PromiseKinds ==
    {"PropertyAccessExpression", "ElementAccessExpression", "Identifier",
     "CallExpression", "MethodCall"}

IsFallback(t) == IsPrim(t, PointerVarType) \/ IsPrim(t, UniversalVarType)

\* left is the text of the left identifier ("" for null) and leftTs the
\* checker's type at it; right is NoNode when there is no right-hand side.
\* Returns a CType | TypePromise.
determineType(S, left, leftTs, right, pos) ==
    IF right.kind = "ObjectLiteralExpression"
    THEN With(generateStructure(S, right.ts, left),
              LAMBDA g : Ret([g.S EXCEPT !.objectLiteralsTypes = DSet(@, pos, g.val)],
                             TypeValue(g.val)))
    ELSE IF right.kind = "ArrayLiteralExpression"
    THEN determineArrayType(S, right, pos)
    ELSE With(convertType(S, IF right.kind # "none" THEN right.ts ELSE leftTs, left),
              LAMBDA c :
                  IF IsFallback(c.val) /\ right.kind \in PromiseKinds
                  THEN Ret(c.S, TypePromise(right, FALSE))
                  ELSE Ret(c.S, TypeValue(c.val)))

\* getTypeString of a CType
getTypeString(S, t) == GetText(S, t)

addTypeToVariable(S, varPos, left, leftTs, right, pos) ==
    With(determineType(S, left, leftTs, right, pos),
         LAMBDA d :
             IF d.val.isPromise
             THEN [d.S EXCEPT !.variablesData[varPos].typePromises = Append(@, d.val)]
             ELSE [d.S EXCEPT !.variablesData[varPos].assignmentTypes =
                                  DSet(@, getTypeString(d.S, d.val.type), d.val.type)])

\* ------------------------------------------------------------------------
\* getCType (null and undefined are both NoType: every caller tests the
\* result with "!= null", "||" or instanceof)
\* ------------------------------------------------------------------------

\* getVariableInfo(node).type || null
IdentifierType(S, v) ==
    IF S.variables[v].present THEN S.variables[v].type ELSE NoType

\* argumentExpression.getText().slice(1, -1): the text between the quotes of
\* a string-literal key; key texts that are a numeric literal or an
\* identifier are one character long in the modelled programs and slice to ""
SlicedKey(node) == IF node.kk = "string" THEN node.p ELSE ""

\* lines 152-163
ElementAccessType(S, node, parentObjectType) ==
    CASE IsArray(parentObjectType) -> S.arrays[parentObjectType.r].elementType
      [] IsStruct(parentObjectType) ->
            DGet(S.structs[parentObjectType.r].properties, SlicedKey(node))
      [] IsDict(parentObjectType) -> S.dicts[parentObjectType.r].elementType
      [] OTHER -> NoType

\* lines 164-175
PropertyAccessType(S, node, parentObjectType) ==
    CASE IsStruct(parentObjectType) ->
            DGet(S.structs[parentObjectType.r].properties, node.p)
      [] IsArray(parentObjectType) /\ node.p = "length" -> Prim(NumberVarType)
      [] IsPrim(parentObjectType, StringVarType) /\ node.p = "length" ->
            Prim(NumberVarType)
      [] OTHER -> NoType

\* lines 179-195
MethodCallType(S, node, arrType) ==
    CASE node.p = "pop" /\ Len(node.args) = 0 /\ IsArray(arrType) ->
            S.arrays[arrType.r].elementType
      [] node.p = "push" /\ Len(node.args) = 1 /\ IsArray(arrType) ->
            Prim(NumberVarType)
      [] /\ node.p = "indexOf" /\ Len(node.args) = 1
         /\ (IsPrim(arrType, StringVarType) \/ IsArray(arrType)) ->
            Prim(NumberVarType)
      [] OTHER -> NoType

\* lines 211-218: the value of the default case
DefaultType(type) == IF IsFallback(type) THEN NoType ELSE type

\* the value getCType returns.  The literal kinds give NoType: the only
\* literal a promise is made for is the empty array literal (line 359), which
\* arrayLiteralsTypes never holds; getCTypeCall below looks the literals up.
getCType(S, node) ==
    CASE node.kind = "none" -> NoType
      [] node.kind = "NumericLiteral" -> Prim(NumberVarType)
      [] node.kind = "TrueKeyword" -> Prim(BooleanVarType)
      [] node.kind = "StringLiteral" -> Prim(StringVarType)
      [] node.kind = "Identifier" -> IdentifierType(S, node.v)
      [] node.kind = "ElementAccessExpression" ->
            ElementAccessType(S, node, IdentifierType(S, node.v))
      [] node.kind = "PropertyAccessExpression" ->
            PropertyAccessType(S, node, IdentifierType(S, node.v))
      [] node.kind = "MethodCall" ->
            MethodCallType(S, node, IdentifierType(S, node.v))
      [] node.kind = "CallExpression" -> S.functionReturnTypes[node.v]
      [] node.kind = "ArrayLiteralExpression" -> NoType
      [] node.kind = "ObjectLiteralExpression" -> NoType
      [] OTHER -> DefaultType(convertType(S, node.ts, "").val)

\* the kinds getCType has a case for
CaseKinds ==
    {"none", "NumericLiteral", "TrueKeyword", "StringLiteral", "Identifier",
     "ElementAccessExpression", "PropertyAccessExpression", "MethodCall",
     "CallExpression"}

\* a call of getCType for the node at pos: the object after the call and the
\* value returned
getCTypeCall(S, node, pos) ==
    CASE node.kind = "ArrayLiteralExpression" -> Ret(S, DGet(S.arrayLiteralsTypes, pos))
      [] node.kind = "ObjectLiteralExpression" -> Ret(S, DGet(S.objectLiteralsTypes, pos))
      [] node.kind \in CaseKinds -> Ret(S, getCType(S, node))
      [] OTHER -> With(convertType(S, node.ts, ""),
                       LAMBDA c : Ret(c.S, DefaultType(c.val)))


\* ------------------------------------------------------------------------
\* tryResolvePromises
\* ------------------------------------------------------------------------

\* "finalType" of a table entry: its type when it is no promise, else what
\* getCType gives for the promise's node (false when neither)
EntryFinalType(S, entry) ==
    IF entry.isPromise THEN getCType(S, entry.associatedNode) ELSE entry.type

\* lines 610-613: the evidence is added when its key is new
AddParameterType(S, varPos, finalType, key) ==
    IF IsType(finalType) /\ ~DHas(S.variablesData[varPos].assignmentTypes, key)
    THEN Ret([S EXCEPT !.variablesData[varPos].assignmentTypes =
                           DSet(@, key, finalType)], TRUE)
    ELSE Ret(S, FALSE)

\* lines 601-613: the call-site entry of the parameter
ResolveParameterEntry(S, varPos, funcDeclPos, i, finalType) ==
    AddParameterType(
        IF S.functionCallsData[funcDeclPos][i].isPromise /\ IsType(finalType)
        THEN [S EXCEPT !.functionCallsData[funcDeclPos][i].resolved = TRUE]
        ELSE S,
        varPos, finalType, getTypeString(S, finalType))

\* lines 598-614: the call-site evidence of a parameter
ResolveParameter(S, varPos) ==
    With(S.variablesData[varPos].parameterFuncDeclPos,
         LAMBDA funcDeclPos :
             IF funcDeclPos = 0 \/ Len(S.functionCallsData[funcDeclPos]) = 0
             THEN Ret(S, FALSE)
             ELSE IF S.variablesData[varPos].parameterIndex + 1
                         > Len(S.functionCallsData[funcDeclPos])
             THEN Ret(S, FALSE)
             ELSE ResolveParameterEntry(
                      S, varPos, funcDeclPos,
                      S.variablesData[varPos].parameterIndex + 1,
                      EntryFinalType(
                          S, S.functionCallsData[funcDeclPos]
                                 [S.variablesData[varPos].parameterIndex + 1])))

\* lines 626-632, with finalType computed
SetReturnType(S, funcDeclPos, finalType) ==
    IF /\ IsType(finalType)
       /\ ~IsPrim(finalType, PointerVarType)
       /\ (~IsType(S.functionReturnTypes[funcDeclPos])
             \/ IsPrim(S.functionReturnTypes[funcDeclPos], PointerVarType))
    THEN Ret([S EXCEPT !.functionReturnTypes[funcDeclPos] = finalType], TRUE)
    ELSE IF ~IsType(S.functionReturnTypes[funcDeclPos])
    THEN Ret([S EXCEPT !.functionReturnTypes[funcDeclPos] = Prim(PointerVarType)], FALSE)
    ELSE Ret(S, FALSE)

\* lines 617-632: one function of the loop over functionReturnsData
ResolveReturn(S, funcDeclPos) ==
    With(EntryFinalType(S, S.functionReturnsData[funcDeclPos]),
         LAMBDA finalType :
             SetReturnType(
                 IF S.functionReturnsData[funcDeclPos].isPromise /\ IsType(finalType)
                 THEN [S EXCEPT !.functionReturnsData[funcDeclPos].resolved = TRUE]
                 ELSE S,
                 funcDeclPos, finalType))

\* the keys of functionReturnsData
ReturnKeys(S) ==
    {f \in DOMAIN S.functionReturnsData : S.functionReturnsData[f] # Undefined}

\* lines 616-633: the loop, in ascending key order
RECURSIVE ResolveReturns(_, _, _)
ResolveReturns(S, f, some) ==
    IF f > Len(S.functionReturnsData) THEN Ret(S, some)
    ELSE IF f \notin ReturnKeys(S) THEN ResolveReturns(S, f + 1, some)
    ELSE With(ResolveReturn(S, f),
              LAMBDA r : ResolveReturns(r.S, f + 1, some \/ r.val))

\* lines 643-653: finalType of a discharged promise, in the object where the
\* ArrayType of line 644 has been created
PromiseFinalType(S, promise, resolvedType) ==
    IF promise.arrayOf THEN ArrRef(Len(S.arrays))
    ELSE IF IsStruct(resolvedType) /\ promise.element THEN resolvedType
    ELSE IF IsArray(resolvedType) /\ promise.element
    THEN S.arrays[resolvedType.r].elementType
    ELSE resolvedType

\* StorePromiseType with the evidence set replaced by the one candidate
StorePromiseTypeAlone(S, varPos, promise, finalType) ==
    [S EXCEPT !.variablesData[varPos].assignmentTypes =
                  <<[key |-> GetText(S, finalType), val |-> finalType]>>]

\* lines 655-663
StorePromiseType(S, varPos, promise, finalType) ==
    IF promise.associatedProperty # ""
    THEN [S EXCEPT !.variablesData[varPos].addedProperties =
                       DSet(@, promise.associatedProperty, finalType)]
    ELSE [S EXCEPT !.variablesData[varPos].assignmentTypes =
                       DSet(@, GetText(S, finalType), finalType)]

\* DischargePromise without "promise.resolved = true"
DischargePromiseUnmarked(S, varPos, i, promise, resolvedType) ==
    With(IF promise.arrayOf
         THEN [S EXCEPT !.arrays = Append(@, [elementType |-> resolvedType,
                                              capacity |-> 0,
                                              isDynamicArray |-> TRUE])]
         ELSE S,
         LAMBDA S1 : StorePromiseType(S1, varPos, promise,
                                      PromiseFinalType(S1, promise, resolvedType)))

\* lines 640-663: the promise is discharged with resolvedType
DischargePromise(S, varPos, i, promise, resolvedType) ==
    With(IF promise.arrayOf
         THEN [S EXCEPT !.variablesData[varPos].typePromises[i].resolved = TRUE,
                        !.arrays = Append(@, [elementType |-> resolvedType,
                                              capacity |-> 0,
                                              isDynamicArray |-> TRUE])]
         ELSE [S EXCEPT !.variablesData[varPos].typePromises[i].resolved = TRUE],
         LAMBDA S1 : StorePromiseType(S1, varPos, promise,
                                      PromiseFinalType(S1, promise, resolvedType)))

\* lines 638-665: one promise of the variable
ResolvePromise(S, varPos, i) ==
    With(getCType(S, S.variablesData[varPos].typePromises[i].associatedNode),
         LAMBDA resolvedType :
             IF ~IsType(resolvedType) THEN Ret(S, FALSE)
             ELSE Ret(DischargePromise(S, varPos, i,
                                       S.variablesData[varPos].typePromises[i],
                                       resolvedType), TRUE))

\* the promises that were unresolved when the loop started (the filter of
\* line 636 is taken once, before the loop)
RECURSIVE ResolvePromises(_, _, _, _, _)
ResolvePromises(S, varPos, pending, i, some) ==
    IF i > Len(S.variablesData[varPos].typePromises) THEN Ret(S, some)
    ELSE IF i \notin pending THEN ResolvePromises(S, varPos, pending, i + 1, some)
    ELSE With(ResolvePromise(S, varPos, i),
              LAMBDA r : ResolvePromises(r.S, varPos, pending, i + 1, some \/ r.val))

\* line 636
PendingPromises(S, varPos) ==
    {i \in 1..Len(S.variablesData[varPos].typePromises) :
        ~S.variablesData[varPos].typePromises[i].resolved}

tryResolvePromises(S, varPos) ==
    With(ResolveParameter(S, varPos),
         LAMBDA a :
             With(ResolveReturns(a.S, 1, a.val),
                  LAMBDA b : ResolvePromises(b.S, varPos, PendingPromises(b.S, varPos),
                                             1, b.val)))

\* ------------------------------------------------------------------------
\* resolvePromisesAndFinalizeTypes: the body of the loop over the variables
\* ------------------------------------------------------------------------

\* Object.keys(assignmentTypes).filter(t => t != PointerVarType && t != UniversalVarType)
CandidateKeys(S, key) ==
    SelectSeq(DKeys(S.variablesData[key].assignmentTypes),
              LAMBDA t : t # PointerVarType /\ t # UniversalVarType)

\* lines 571-575: varType.properties[addPropKey] = addPropType
RECURSIVE MergeAddedProperties(_, _, _, _)
MergeAddedProperties(S, r, addedProperties, i) ==
    IF i > Len(addedProperties) THEN S
    ELSE MergeAddedProperties(
             [S EXCEPT !.structs[r].properties =
                           DSet(@, addedProperties[i].key, addedProperties[i].val)],
             r, addedProperties, i + 1)

\* lines 561-569: the allocation flag of the single candidate
SetAllocation(S, key, varType, data) ==
    CASE IsArray(varType) ->
            [S EXCEPT !.arrays[varType.r].isDynamicArray = @ \/ data.isDynamicArray,
                      !.variables[key].requiresAllocation = @ \/ data.isDynamicArray]
      [] IsStruct(varType) /\ data.objLiteralAssigned ->
            [S EXCEPT !.variables[key].requiresAllocation = TRUE]
      [] IsDict(varType) ->
            [S EXCEPT !.variables[key].requiresAllocation = TRUE]
      [] OTHER -> S

\* lines 560-577: the single candidate wins
SingleCandidate(S, key, varType, data) ==
    With(SetAllocation(S, key, varType, data),
         LAMBDA S1 :
             [(IF IsStruct(varType)
               THEN MergeAddedProperties(S1, varType.r, data.addedProperties, 1)
               ELSE S1) EXCEPT !.variables[key].type = varType])

\* ChooseWinner where several candidates do not fall back: the first wins
ChooseFirstCandidate(S, key, types) ==
    IF Len(types) >= 1
    THEN SingleCandidate(S, key, DGet(S.variablesData[key].assignmentTypes, types[1]),
                         S.variablesData[key])
    ELSE [S EXCEPT !.variables[key].type = Prim(PointerVarType)]

\* lines 558-585: the winning type of variable k
ChooseWinner(S, key, types) ==
    IF Len(types) = 1
    THEN SingleCandidate(S, key, DGet(S.variablesData[key].assignmentTypes, types[1]),
                         S.variablesData[key])
    ELSE IF Len(types) = 0
    THEN [S EXCEPT !.variables[key].type = Prim(PointerVarType)]
    ELSE [S EXCEPT !.variables[key].requiresAllocation = TRUE,
                   !.variables[key].type = Prim(UniversalVarType)]

FinalizeType(S, key) == ChooseWinner(S, key, CandidateKeys(S, key))

\* line 587: "somePromisesAreResolved || this.tryResolvePromises(k)" does not
\* call tryResolvePromises once the flag is set
ResolveUnlessSet(S, key, some) ==
    IF some THEN Ret(S, TRUE) ELSE tryResolvePromises(S, key)

\* LoopBody for the keys taken in descending order
LoopBodyDescending(S, key, some) ==
    ResolveUnlessSet(FinalizeType(S, Len(S.variables) + 1 - key),
                     Len(S.variables) + 1 - key, some)

\* lines 556-589 for one key: the object and the flag after the iteration
LoopBody(S, key, some) == ResolveUnlessSet(FinalizeType(S, key), key, some)


\* ------------------------------------------------------------------------
\* State
\* ------------------------------------------------------------------------

\* the outcome of a call of a public query: the value returned (a type or a
\* text), or thrown
Answer(op, thrown, type, text) ==
    [op |-> op, thrown |-> thrown, type |-> type, text |-> text]

NoAnswer == Answer("", FALSE, NoType, "")

VARIABLES
    layout,     \* the declarations of the program, by slot: kind, name, the
                \* checker's type of the declared identifier, and for a
                \* parameter its function and index
    prog,       \* the statements visited so far
    ndecl,      \* the slots whose declaration has been visited
    scope,      \* the function whose body is being visited (0: none yet)
    th,         \* the TypeHelper object
    pc,         \* "collect", "resolve", "done"
    k,          \* the loop variable of resolvePromisesAndFinalizeTypes
    somePromisesAreResolved,
    structs,    \* the record definitions figureOutVariablesAndTypes returns
    answer      \* what the last call of a public query returned

vars ==
    <<layout, prog, ndecl, scope, th, pc, k, somePromisesAreResolved, structs, answer>>

Slots == 1..Len(layout)

Decl(kind, name, ts, func, index) ==
    [kind |-> kind, name |-> name, ts |-> ts, func |-> func, index |-> index]

NameOf(v) == layout[v].name

\* ------------------------------------------------------------------------
\* findVariablesRecursively: the handlers of the node kinds
\* ------------------------------------------------------------------------

\* lines 382-391: the variable is created at its first reference
RegisterVariable(S, v) == [S EXCEPT !.variables[v].present = TRUE]

\* lines 343-346: callData[i] = determinedType where the entry is missing,
\* universal or a promise
StoreArgument(S, f, i, determinedType) ==
    IF i > Len(S.functionCallsData[f])
    THEN [S EXCEPT !.functionCallsData[f] = Append(@, determinedType)]
    ELSE IF \/ S.functionCallsData[f][i].isPromise
            \/ IsPrim(S.functionCallsData[f][i].type, UniversalVarType)
    THEN [S EXCEPT !.functionCallsData[f][i] = determinedType]
    ELSE S

\* lines 341-347: the arguments of a call to f, from argument i on
RECURSIVE CollectArguments(_, _, _, _, _)
CollectArguments(S, f, args, i, pos) ==
    IF i > Len(args) THEN S
    ELSE With(determineType(S, "", TsType("void", <<>>), args[i], Append(pos, i)),
              LAMBDA d : CollectArguments(StoreArgument(d.S, f, i, d.val),
                                          f, args, i + 1, pos))

\* lines 333-350: a call f(args); the function is declared after the call
\* when its slot has not been visited yet
VisitCallExpression(S, f, args, pos) ==
    CollectArguments(IF f > ndecl
                     THEN [S EXCEPT !.functionPrototypes = @ \cup {f}]
                     ELSE S,
                     f, args, 1, pos)

\* lines 358-362
StoreReturn(S, scopeId, expression, determinedType) ==
    IF \/ S.functionReturnsData[scopeId] = Undefined
       \/ S.functionReturnsData[scopeId].isPromise
       \/ IsPrim(S.functionReturnsData[scopeId].type, UniversalVarType)
    THEN [S EXCEPT !.functionReturnsData[scopeId] =
                       IF ~determinedType.isPromise /\ IsFallback(determinedType.type)
                       THEN TypePromise(expression, FALSE)
                       ELSE determinedType]
    ELSE S

\* lines 351-366
VisitReturnStatement(S, scopeId, expression, pos) ==
    IF expression.kind # "none"
    THEN With(determineType(S, "", TsType("void", <<>>), expression, pos),
              LAMBDA d : StoreReturn(d.S, scopeId, expression, d.val))
    ELSE [S EXCEPT !.functionReturnsData[scopeId] = TypeValue(Prim(VoidType))]

\* lines 367-376: a literal met by the traversal itself
VisitLiteral(S, node, pos) ==
    CASE node.kind = "ArrayLiteralExpression" ->
            IF DHas(S.arrayLiteralsTypes, pos) THEN S
            ELSE determineArrayType(S, node, pos).S
      [] node.kind = "ObjectLiteralExpression" ->
            IF DHas(S.objectLiteralsTypes, pos) THEN S
            ELSE With(generateStructure(S, node.ts, ""),
                      LAMBDA g : [g.S EXCEPT !.objectLiteralsTypes = DSet(@, pos, g.val)])
      [] OTHER -> S

\* lines 459-470: an array candidate of v whose element type has this text
FoundArrayOf(S, v, dtString) ==
    \E i \in 1..Len(S.variablesData[v].assignmentTypes) :
        /\ IsArray(S.variablesData[v].assignmentTypes[i].val)
        /\ GetText(S, S.arrays[S.variablesData[v].assignmentTypes[i].val.r].elementType)
              = dtString

\* lines 472-475: new ArrayType(determinedType, 0, true) becomes a candidate
AddArrayOf(S, v, t) ==
    [S EXCEPT !.arrays = Append(@, [elementType |-> t, capacity |-> 0,
                                    isDynamicArray |-> TRUE]),
              !.variablesData[v].assignmentTypes =
                  DSet(@, GetText([S EXCEPT !.arrays =
                                      Append(@, [elementType |-> t, capacity |-> 0,
                                                 isDynamicArray |-> TRUE])],
                                  ArrRef(Len(S.arrays) + 1)),
                       ArrRef(Len(S.arrays) + 1))]

\* lines 455-475: a value of type t is pushed
PushType(S, v, t) == IF FoundArrayOf(S, v, GetText(S, t)) THEN S ELSE AddArrayOf(S, v, t)

\* lines 450-476: the value pushed is determinedType
CollectPush(S, v, determinedType) ==
    IF determinedType.isPromise
    THEN [S EXCEPT !.variablesData[v].typePromises =
                       Append(@, [determinedType EXCEPT !.arrayOf = TRUE])]
    ELSE PushType(IF IsArray(determinedType.type)
                  THEN [S EXCEPT !.arrays[determinedType.type.r].isDynamicArray = TRUE]
                  ELSE S,
                  v, determinedType.type)

\* lines 434-441: v.p = right
CollectPropertyWrite(S, v, p, right, pos) ==
    With(determineType(S, p, TsType("void", <<>>), right, pos),
         LAMBDA d :
             IF d.val.isPromise THEN d.S
             ELSE [d.S EXCEPT !.variablesData[v].addedProperties =
                                  DSet(@, p, d.val.type)])

\* lines 442-477: v.push
CollectPushCall(S, v, parent, args, pos) ==
    With(IF parent = "call" /\ Len(args) = 1
         THEN determineType([S EXCEPT !.variablesData[v].isDynamicArray = TRUE],
                            NameOf(v), TsType("void", <<>>), args[1], Append(pos, 1))
         ELSE Ret([S EXCEPT !.variablesData[v].isDynamicArray = TRUE],
                  TypeValue(Prim(UniversalVarType))),
         LAMBDA d : CollectPush(d.S, v, d.val))

\* lines 478-480
CollectPop(S, v, p) ==
    IF p = "pop" THEN [S EXCEPT !.variablesData[v].isDynamicArray = TRUE] ELSE S

\* lines 432-481: identifier v as the object of v.p; parent is "write" for
\* v.p = right, "call" for v.p(args), "read" otherwise
VisitPropertyAccess(S, v, p, parent, right, args, pos) ==
    With(IF parent = "write" THEN CollectPropertyWrite(S, v, p, right, pos) ELSE S,
         LAMBDA S1 :
             CollectPop(IF p = "push" THEN CollectPushCall(S1, v, parent, args, pos)
                        ELSE S1,
                        v, p))

\* lines 510-514: at.elementType = determinedType where it is still unknown
RECURSIVE RefineElementTypes(_, _, _, _)
RefineElementTypes(S, at, t, i) ==
    IF i > Len(at) THEN S
    ELSE IF /\ IsArray(at[i].val)
            /\ IsPrim(S.arrays[at[i].val.r].elementType, UniversalVarType)
         THEN RefineElementTypes([S EXCEPT !.arrays[at[i].val.r].elementType = t],
                                 at, t, i + 1)
         ELSE RefineElementTypes(S, at, t, i + 1)

\* ReplaceByDict without the delete
AddDictBesideRecord(S, v, atKey, t) ==
    [S EXCEPT !.dicts = Append(@, [elementType |-> t]),
              !.variablesData[v].assignmentTypes =
                  DSet(@,
                       GetText([S EXCEPT !.dicts = Append(@, [elementType |-> t])],
                               DictRef(Len(S.dicts) + 1)),
                       DictRef(Len(S.dicts) + 1))]

\* lines 527-529: the candidate under atKey is deleted and a new
\* DictType(determinedType) stored under its text
ReplaceByDict(S, v, atKey, t) ==
    [S EXCEPT !.dicts = Append(@, [elementType |-> t]),
              !.variablesData[v].assignmentTypes =
                  DSet(DDel(@, atKey),
                       GetText([S EXCEPT !.dicts = Append(@, [elementType |-> t])],
                               DictRef(Len(S.dicts) + 1)),
                       DictRef(Len(S.dicts) + 1))]

\* lines 524-531: the loop over the candidates; at is the evidence set when
\* the loop starts (for-in takes the keys once and skips deleted ones)
RECURSIVE ConvertToDict(_, _, _, _, _)
ConvertToDict(S, v, at, t, i) ==
    IF i > Len(at) THEN S
    ELSE IF IsStruct(at[i].val) /\ DHas(S.variablesData[v].assignmentTypes, at[i].key)
         THEN ConvertToDict(ReplaceByDict(S, v, at[i].key, t), v, at, t, i + 1)
         ELSE ConvertToDict(S, v, at, t, i + 1)

\* lines 493-503: v["p"]
CollectStringKey(S, v, p, determinedType) ==
    With(IF determinedType.isPromise
         THEN [S EXCEPT !.variablesData[v].typePromises =
                            Append(@, [determinedType EXCEPT !.associatedProperty = p])]
         ELSE S,
         LAMBDA S1 :
             IF /\ ~determinedType.isPromise
                /\ \/ ~DHas(S1.variablesData[v].addedProperties, p)
                   \/ IsPrim(DGet(S1.variablesData[v].addedProperties, p),
                             UniversalVarType)
             THEN [S1 EXCEPT !.variablesData[v].addedProperties =
                                 DSet(@, p, determinedType.type)]
             ELSE IF ~DHas(S1.variablesData[v].addedProperties, p)
             THEN [S1 EXCEPT !.variablesData[v].addedProperties =
                                 DSet(@, p, Prim(UniversalVarType))]
             ELSE S1)

\* lines 504-516: v[0]
CollectNumericKey(S, v, determinedType) ==
    IF determinedType.isPromise
    THEN [S EXCEPT !.variablesData[v].typePromises =
                       Append(@, [determinedType EXCEPT !.arrayOf = TRUE])]
    ELSE RefineElementTypes(S, S.variablesData[v].assignmentTypes,
                            determinedType.type, 1)

\* lines 517-533: v[key] with any other key expression
CollectDynamicKey(S, v, determinedType) ==
    IF determinedType.isPromise
    THEN [S EXCEPT !.variablesData[v].isDict = TRUE,
                   !.variablesData[v].typePromises =
                       Append(@, [determinedType EXCEPT !.arrayOf = TRUE])]
    ELSE ConvertToDict([S EXCEPT !.variablesData[v].isDict = TRUE], v,
                       S.variablesData[v].assignmentTypes, determinedType.type, 1)

\* lines 482-535: identifier v as the object of v[key]; write is TRUE for
\* v[key] = right
VisitElementAccess(S, v, kk, p, write, right, pos) ==
    With(IF write
         THEN determineType(S, NameOf(v), TsType("void", <<>>), right, pos)
         ELSE Ret(S, TypeValue(Prim(UniversalVarType))),
         LAMBDA d :
             CASE kk = "string" -> CollectStringKey(d.S, v, p, d.val)
               [] kk = "number" -> CollectNumericKey(d.S, v, d.val)
               [] OTHER -> CollectDynamicKey(d.S, v, d.val))


\* ------------------------------------------------------------------------
\* findVariablesRecursively on the statements of the program: the nodes of a
\* statement are visited in pre-order (line 544)
\* ------------------------------------------------------------------------

RECURSIVE VisitExpression(_, _, _)
RECURSIVE VisitArguments(_, _, _, _)

VisitArguments(S, args, i, pos) ==
    IF i > Len(args) THEN S
    ELSE VisitArguments(VisitExpression(S, args[i], Append(pos, i)), args, i + 1, pos)

\* an expression that is not the target of the statement
VisitExpression(S, node, pos) ==
    CASE node.kind = "Identifier" -> RegisterVariable(S, node.v)
      [] node.kind = "CallExpression" ->
            VisitArguments(
                RegisterVariable(VisitCallExpression(S, node.v, node.args, pos), node.v),
                node.args, 1, pos)
      [] node.kind = "MethodCall" ->
            VisitArguments(
                VisitPropertyAccess(RegisterVariable(S, node.v), node.v, node.p,
                                    "call", NoNode, node.args, pos),
                node.args, 1, pos)
      [] node.kind = "PropertyAccessExpression" ->
            VisitPropertyAccess(RegisterVariable(S, node.v), node.v, node.p,
                                "read", NoNode, <<>>, pos)
      [] node.kind = "ElementAccessExpression" ->
            VisitElementAccess(RegisterVariable(S, node.v), node.v, node.kk, node.p,
                               FALSE, NoNode, pos)
      [] node.kind = "ParenthesizedExpression" -> RegisterVariable(S, node.v)
      [] OTHER -> VisitLiteral(S, node, pos)

\* lines 393-398 and 422-430: identifier v is the name of a declaration with
\* this initializer, or the left side of v = right
CollectAssignment(S, v, left, right, pos) ==
    [addTypeToVariable(S, v, left, TsType(layout[v].ts, <<>>), right, pos)
        EXCEPT !.variablesData[v].objLiteralAssigned =
                   @ \/ right.kind = "ObjectLiteralExpression"]

\* the right-hand side of a declaration or assignment: an identifier with the
\* text of the left one passes the same test (lines 395, 425)
VisitRightHandSide(S, left, right, pos) ==
    IF right.kind = "Identifier" /\ NameOf(right.v) = left
    THEN CollectAssignment(RegisterVariable(S, right.v), right.v, left, right, pos)
    ELSE VisitExpression(S, right, pos)

\* function f(p1, ..) { : the name and the parameters (lines 410-421)
RECURSIVE VisitParameters(_, _, _, _)
VisitParameters(S, f, v, pos) ==
    IF v > Len(layout) \/ layout[v].kind # "parameter" THEN S
    ELSE VisitParameters(
             addTypeToVariable([RegisterVariable(S, v) EXCEPT
                                   !.variablesData[v].parameterIndex = layout[v].index,
                                   !.variablesData[v].parameterFuncDeclPos = f],
                               v, NameOf(v), TsType(layout[v].ts, <<>>), NoNode, pos),
             f, v + 1, pos)

StmtFunctionDeclaration(S, f, pos) ==
    VisitParameters(RegisterVariable(S, f), f, f + 1, pos)

\* var v = initializer;  or  var v;
StmtVariableDeclaration(S, v, initializer, pos) ==
    VisitRightHandSide(
        CollectAssignment(RegisterVariable(S, v), v, NameOf(v), initializer, pos),
        NameOf(v), initializer, pos)

\* v = right;
StmtAssignment(S, v, right, pos) ==
    VisitRightHandSide(
        CollectAssignment(RegisterVariable(S, v), v, NameOf(v), right, pos),
        NameOf(v), right, pos)

\* v.p = right;
StmtPropertyWrite(S, v, p, right, pos) ==
    VisitExpression(
        VisitPropertyAccess(RegisterVariable(S, v), v, p, "write", right, <<>>, pos),
        right, pos)

\* v[key] = right;
StmtElementWrite(S, v, kk, p, right, pos) ==
    VisitExpression(
        VisitElementAccess(RegisterVariable(S, v), v, kk, p, TRUE, right, pos),
        right, pos)

\* return expression;  or  return;
StmtReturn(S, scopeId, expression, pos) ==
    VisitExpression(VisitReturnStatement(S, scopeId, expression, pos), expression, pos)

\* lines 404, 539: the loop variable gets a promise over the iterated
\* expression, made with element = true
CollectForOf(S, v, expression) ==
    [S EXCEPT !.variablesData[v].typePromises = Append(@, TypePromise(expression, TRUE))]

\* for (v of expression)  (lines 536-541)
StmtForOf(S, v, expression, pos) ==
    VisitExpression(CollectForOf(RegisterVariable(S, v), v, expression), expression, pos)

\* for (var v of expression)  (lines 393-407)
StmtForOfDeclaration(S, v, expression, pos) ==
    VisitExpression(
        CollectForOf(CollectAssignment(RegisterVariable(S, v), v, NameOf(v), NoNode, pos),
                     v, expression),
        expression, pos)

\* the parameters of the function declared in slot f
ParametersOf(f) ==
    {v \in Slots : layout[v].kind = "parameter" /\ layout[v].func = f}

\* ------------------------------------------------------------------------
\* figureOutVariablesAndTypes, lines 115-128: the records with a property
\* ------------------------------------------------------------------------

StructDefinitions(S) ==
    With(SelectSeq(S.userStructs, LAMBDA e : Len(S.structs[e.val.r].properties) > 0),
         LAMBDA kept :
             [i \in 1..Len(kept) |->
                 [name |-> kept[i].key,
                  properties |-> S.structs[kept[i].val.r].properties]])

\* ------------------------------------------------------------------------
\* Actions
\* ------------------------------------------------------------------------

Statement(kind, v, p, kk, e) == [kind |-> kind, v |-> v, p |-> p, kk |-> kk, e |-> e]

Collecting == pc = "collect" /\ Len(prog) < MaxStmts

NextPos == <<Len(prog) + 1>>

Collect(S, st) ==
    /\ th' = S
    /\ prog' = Append(prog, st)
    /\ UNCHANGED <<layout, pc, k, somePromisesAreResolved, structs, answer>>

\* function f(..) {
FunctionDeclaration ==
    /\ Collecting
    /\ ndecl < Len(layout)
    /\ layout[ndecl + 1].kind = "function"
    /\ ndecl' = ndecl + 1 + Cardinality(ParametersOf(ndecl + 1))
    /\ scope' = ndecl + 1
    /\ Collect(StmtFunctionDeclaration(th, ndecl + 1, NextPos),
               Statement("function", ndecl + 1, "", "", NoNode))

\* var v = initializer;
VariableDeclaration(initializer) ==
    /\ Collecting
    /\ ndecl < Len(layout)
    /\ layout[ndecl + 1].kind = "variable"
    /\ ndecl' = ndecl + 1
    /\ Collect(StmtVariableDeclaration(th, ndecl + 1, initializer, NextPos),
               Statement("var", ndecl + 1, "", "", initializer))
    /\ UNCHANGED scope

\* return expression;
ReturnStatement(expression) ==
    /\ Collecting
    /\ scope # 0
    /\ Collect(StmtReturn(th, scope, expression, NextPos),
               Statement("return", scope, "", "", expression))
    /\ UNCHANGED <<ndecl, scope>>

\* v = right;
Assignment(v, right) ==
    /\ Collecting
    /\ Collect(StmtAssignment(th, v, right, NextPos),
               Statement("assign", v, "", "", right))
    /\ UNCHANGED <<ndecl, scope>>

\* v.p = right;
PropertyWrite(v, p, right) ==
    /\ Collecting
    /\ Collect(StmtPropertyWrite(th, v, p, right, NextPos),
               Statement("propwrite", v, p, "", right))
    /\ UNCHANGED <<ndecl, scope>>

\* v[key] = right;
ElementWrite(v, kk, p, right) ==
    /\ Collecting
    /\ Collect(StmtElementWrite(th, v, kk, p, right, NextPos),
               Statement("elemwrite", v, p, kk, right))
    /\ UNCHANGED <<ndecl, scope>>

\* expression;  (a call, a push, a pop, a read)
ExpressionStatement(expression) ==
    /\ Collecting
    /\ Collect(VisitExpression(th, expression, NextPos),
               Statement("expr", 0, "", "", expression))
    /\ UNCHANGED <<ndecl, scope>>

\* for (v of expression) ..
ForOfStatement(v, expression) ==
    /\ Collecting
    /\ Collect(StmtForOf(th, v, expression, NextPos),
               Statement("forof", v, "", "", expression))
    /\ UNCHANGED <<ndecl, scope>>

\* for (var v of expression) ..
ForOfDeclaration(expression) ==
    /\ Collecting
    /\ ndecl < Len(layout)
    /\ layout[ndecl + 1].kind = "variable"
    /\ ndecl' = ndecl + 1
    /\ Collect(StmtForOfDeclaration(th, ndecl + 1, expression, NextPos),
               Statement("forofvar", ndecl + 1, "", "", expression))
    /\ UNCHANGED scope

\* line 113: the sources are traversed, the resolver starts
StartResolve ==
    /\ pc = "collect"
    /\ ndecl = Len(layout)
    /\ pc' = "resolve"
    /\ k' = 1
    /\ somePromisesAreResolved' = FALSE
    /\ UNCHANGED <<layout, prog, ndecl, scope, th, structs, answer>>

\* the object and the flag after an iteration
Iterated(r) ==
    /\ th' = r.S
    /\ somePromisesAreResolved' = r.val

\* one iteration of the for loop of lines 556-589
ResolveStep ==
    /\ pc = "resolve"
    /\ k <= Len(layout)
    /\ Iterated(LoopBody(th, k, somePromisesAreResolved))
    /\ k' = k + 1
    /\ UNCHANGED <<layout, prog, ndecl, scope, pc, structs, answer>>

\* line 591, the loop continues
NextPass ==
    /\ pc = "resolve"
    /\ k > Len(layout)
    /\ somePromisesAreResolved
    /\ somePromisesAreResolved' = FALSE
    /\ k' = 1
    /\ UNCHANGED <<layout, prog, ndecl, scope, th, pc, structs, answer>>

\* line 591, the loop ends; lines 115-132
ReturnStructs ==
    /\ pc = "resolve"
    /\ k > Len(layout)
    /\ ~somePromisesAreResolved
    /\ pc' = "done"
    /\ structs' = StructDefinitions(th)
    /\ UNCHANGED <<layout, prog, ndecl, scope, th, k, somePromisesAreResolved, answer>>

Resolver == StartResolve \/ ResolveStep \/ NextPass \/ ReturnStructs

InitWith(layouts) ==
    /\ layout \in layouts
    /\ prog = <<>>
    /\ ndecl = 0
    /\ scope = 0
    /\ th = NewTypeHelper(1..Len(layout))
    /\ pc = "collect"
    /\ k = 0
    /\ somePromisesAreResolved = FALSE
    /\ structs = <<>>
    /\ answer = NoAnswer

\* ------------------------------------------------------------------------
\* Programs
\* ------------------------------------------------------------------------

SlotNames == <<"a", "b", "c", "d", "e", "f", "g", "h">>

DeclKinds == {"function", "parameter", "variable"}

\* the function a parameter slot belongs to: the nearest function before it
FunctionBefore(kinds, i) ==
    CHOOSE j \in 1..(i - 1) :
        /\ kinds[j] = "function"
        /\ \A m \in (j + 1)..(i - 1) : kinds[m] # "function"

\* parameters follow their function; every identifier is untyped ("any")
LayoutOf(kinds) ==
    [i \in 1..Len(kinds) |->
        IF kinds[i] = "parameter"
        THEN Decl("parameter", SlotNames[i], "any", FunctionBefore(kinds, i),
                  i - FunctionBefore(kinds, i) - 1)
        ELSE Decl(kinds[i], SlotNames[i], "any", 0, 0)]

KindSequences(n) == UNION {[1..m -> DeclKinds] : m \in 1..n}

\* programs whose functions have exactly one parameter
OneParameter(kinds) ==
    \A i \in 1..Len(kinds) :
        /\ kinds[i] = "parameter" => i > 1 /\ kinds[i - 1] = "function"
        /\ kinds[i] = "function" => i < Len(kinds) /\ kinds[i + 1] = "parameter"

FlowLayouts == {LayoutOf(kinds) : kinds \in {s \in KindSequences(NVars) : OneParameter(s)}}

ValueSlots == {v \in Slots : layout[v].kind # "function"}

FunctionSlots == {v \in Slots : layout[v].kind = "function"}

PlainSlots == {v \in Slots : layout[v].kind = "variable"}

\* ------------------------------------------------------------------------
\* Data flow between untyped variables, parameters and functions
\* ------------------------------------------------------------------------

FlowCalls == {CallExpression(f, <<NumericLiteral>>, "any") : f \in FunctionSlots}

FlowIdentifiers == {Identifier(v, "any") : v \in ValueSlots}

FlowInitializers == {NoNode, NumericLiteral} \cup FlowIdentifiers \cup FlowCalls

FlowReturns == {NumericLiteral} \cup FlowIdentifiers

FlowValues == {NumericLiteral, StringLiteral}

Init == InitWith(FlowLayouts)

Next ==
    \/ FunctionDeclaration
    \/ \E e \in FlowInitializers : VariableDeclaration(e)
    \/ \E e \in FlowReturns : ReturnStatement(e)
    \/ \E v \in PlainSlots, e \in FlowValues : Assignment(v, e)
    \/ StartResolve
    \/ ResolveStep
    \/ NextPass
    \/ ReturnStructs

Spec == Init /\ [][Next]_vars

\* a step of the loop: the next variable, the next pass or the exit
LoopAdvances ==
    /\ pc = "resolve"
    /\ k' \in 1..(Len(layout) + 1)
    /\ pc' \in {"resolve", "done"}
    /\ <<k', pc'>> # <<k, pc>>

\* resolvePromisesAndFinalizeTypes is sequential code: once it is entered,
\* its next step is eventually taken
FairSpec == Spec /\ WF_<<k, pc>>(LoopAdvances)

\* ------------------------------------------------------------------------
\* Programs over arrays: literals, push, pop, writes with a numeric key
\* ------------------------------------------------------------------------

VariableLayouts ==
    {LayoutOf(kinds) : kinds \in UNION {[1..m -> {"variable"}] : m \in 1..NObjVars}}

ArrayInitializers ==
    {NoNode} \cup {ArrayLiteralExpression(n, "number") : n \in 1..MaxElems}

ArrayCalls ==
    {MethodCall(v, "push", <<NumericLiteral>>, "number") : v \in Slots}
        \cup {MethodCall(v, "pop", <<>>, "any") : v \in Slots}

ArrayElements == {NumericLiteral} \cup {Identifier(v, "any") : v \in Slots}

ArrayInit == InitWith(VariableLayouts)

ArrayNext ==
    \/ \E e \in ArrayInitializers : VariableDeclaration(e)
    \/ \E e \in ArrayCalls : ExpressionStatement(e)
    \/ \E v \in Slots, e \in ArrayElements : ElementWrite(v, "number", "", e)
    \/ \E v \in Slots : Assignment(v, NumericLiteral)
    \/ StartResolve
    \/ ResolveStep
    \/ NextPass
    \/ ReturnStructs

ArraySpec == ArrayInit /\ [][ArrayNext]_vars

\* ------------------------------------------------------------------------
\* Programs over records: object literals, property writes, writes with a
\* dynamic key
\* ------------------------------------------------------------------------

\* the shapes of the object literals
Shapes ==
    {<<>>, <<TsProp("x", "number")>>, <<TsProp("x", "number"), TsProp("y", "string")>>}

\* the statement that declares slot v, once visited
DeclarationOf(v) == CHOOSE i \in 1..Len(prog) : prog[i].kind = "var" /\ prog[i].v = v

\* the checker's type of a declared variable: that of its initializer
DeclaredType(v) ==
    IF prog[DeclarationOf(v)].e.kind = "none" THEN TsType("any", <<>>)
    ELSE prog[DeclarationOf(v)].e.ts

RecordInitializers ==
    {ObjectLiteralExpression(sh) : sh \in Shapes}
        \cup {TypedIdentifier(v, DeclaredType(v)) : v \in 1..ndecl}

RecordInit == InitWith(VariableLayouts)

RecordNext ==
    \/ \E e \in RecordInitializers : VariableDeclaration(e)
    \/ \E v \in Slots : PropertyWrite(v, "x", NumericLiteral)
    \/ \E v \in Slots, e \in {StringLiteral, NumericLiteral} :
            ElementWrite(v, "dynamic", "", e)
    \/ \E v \in Slots : Assignment(v, NumericLiteral)
    \/ StartResolve
    \/ ResolveStep
    \/ NextPass
    \/ ReturnStructs

RecordSpec == RecordInit /\ [][RecordNext]_vars

\* ------------------------------------------------------------------------
\* The public queries getCType and getTypeString, called by the code
\* generator once figureOutVariablesAndTypes has returned
\* ------------------------------------------------------------------------

\* the argument of getTypeString: a ts.Type, a ts.Node (at pos), a ts.Symbol
\* (declared in slot v) or a CType
Source(form, ts, node, pos, v, type) ==
    [form |-> form, ts |-> ts, node |-> node, pos |-> pos, v |-> v, type |-> type]

TypeSource(ts) == Source("type", ts, NoNode, <<>>, 0, NoType)

NodeSource(node, pos) == Source("node", node.ts, node, pos, 0, NoType)

SymbolSource(v) == Source("symbol", TsType("void", <<>>), NoNode, <<>>, v, NoType)

CTypeSource(type) == Source("ctype", TsType("void", <<>>), NoNode, <<>>, 0, type)

\* lines 235-242: the source is converted to a CType
ConvertSource(S, source) ==
    CASE source.form = "type" -> convertType(S, source.ts, "")
      [] source.form = "node" -> getCTypeCall(S, source.node, source.pos)
      [] source.form = "symbol" -> Ret(S, S.variables[source.v].type)
      [] OTHER -> Ret(S, source.type)

\* RenderSource with the text of the value in every case
RenderAlways(S, type) == Answer("getTypeString", FALSE, type, GetText(S, type))

\* lines 244-253: the text of an array, a record, a map or a string; an
\* Error is thrown for any other value
RenderSource(S, type) ==
    IF IsArray(type) \/ IsStruct(type) \/ IsDict(type) \/ IsString(type)
    THEN Answer("getTypeString", FALSE, type, GetText(S, type))
    ELSE Answer("getTypeString", TRUE, type, "")

\* a call of getTypeString: the object after the call and the outcome
getTypeStringCall(S, source) ==
    With(ConvertSource(S, source),
         LAMBDA c : Ret(c.S, RenderSource(c.S, c.val)))

Queried(S, a) ==
    /\ pc = "done"
    /\ th' = S
    /\ answer' = a
    /\ UNCHANGED <<layout, prog, ndecl, scope, pc, k, somePromisesAreResolved, structs>>

\* getCType(node)
GetCType(node, pos) ==
    With(getCTypeCall(th, node, pos),
         LAMBDA r : Queried(r.S, Answer("getCType", FALSE, r.val, "")))

\* getTypeString(source)
GetTypeString(source) ==
    With(getTypeStringCall(th, source), LAMBDA r : Queried(r.S, r.val))

\* the object types of the expressions asked about
QueryTypes ==
    {TsType("any", <<>>), TsType("number", <<>>), TsType("other", <<>>),
     TsType("object", <<TsProp("x", "number")>>)}

QueryNodes ==
    {NoNode, NumericLiteral}
        \cup {Identifier(v, "any") : v \in Slots}
        \cup {PropertyAccessExpression(v, "y", "any") : v \in Slots}
        \cup {ParenthesizedExpression(v, ts) : v \in Slots, ts \in QueryTypes}

QuerySources ==
    {TypeSource(ts) : ts \in QueryTypes}
        \cup {NodeSource(node, <<>>) : node \in QueryNodes}
        \cup {SymbolSource(v) : v \in Slots}
        \cup {CTypeSource(type) : type \in {NoType, Prim(BooleanVarType)}}

QueryInitializers ==
    {NoNode, ObjectLiteralExpression(<<TsProp("x", "number")>>)}
        \cup {TypedIdentifier(v, DeclaredType(v)) : v \in 1..ndecl}

QueryInit == InitWith(VariableLayouts)

QueryNext ==
    \/ \E e \in QueryInitializers : VariableDeclaration(e)
    \/ \E v \in Slots : PropertyWrite(v, "y", NumericLiteral)
    \/ StartResolve
    \/ ResolveStep
    \/ NextPass
    \/ ReturnStructs
    \/ \E node \in QueryNodes : GetCType(node, <<>>)
    \/ \E i \in 1..Len(prog) : GetCType(prog[i].e, <<i>>)
    \/ \E source \in QuerySources : GetTypeString(source)

QuerySpec == QueryInit /\ [][QueryNext]_vars

\* ------------------------------------------------------------------------
\* Programs over one function: its call sites and its return statements
\* ------------------------------------------------------------------------

CallLayouts ==
    {LayoutOf(<<"function", "parameter">>),
     LayoutOf(<<"function", "parameter", "variable">>)}

\* the arguments of the call sites: a number, a string, an untyped variable u
\* as u and as (u)
CallArguments ==
    {NumericLiteral, StringLiteral}
        \cup {Identifier(v, "any") : v \in PlainSlots}
        \cup {Parenthesized(v) : v \in PlainSlots}

CallSites == {CallExpression(f, <<arg>>, "any") : f \in FunctionSlots, arg \in CallArguments}

\* the returned expressions; NoNode is the bare return
ReturnedExpressions ==
    {NoNode, NumericLiteral, StringLiteral}
        \cup {Identifier(v, "any") : v \in ValueSlots}
        \cup {Parenthesized(v) : v \in ValueSlots}

CallInit == InitWith(CallLayouts)

CallNext ==
    \/ FunctionDeclaration
    \/ VariableDeclaration(NoNode)
    \/ \E e \in CallSites : ExpressionStatement(e)
    \/ \E e \in ReturnedExpressions : ReturnStatement(e)
    \/ StartResolve
    \/ ResolveStep
    \/ NextPass
    \/ ReturnStructs

CallSpec == CallInit /\ [][CallNext]_vars

\* ------------------------------------------------------------------------
\* addNewIteratorVariable, addNewTemporaryVariable
\* ------------------------------------------------------------------------

iteratorVarNames == <<"i", "j", "k", "l", "m", "n">>

\* line 285: the names of the variables visible in the scope: the global
\* variables and, in a function, its parameters (scopeId 0 is 'main')
SymbolsInScope(scopeId) ==
    {layout[v].name : v \in {u \in Slots : \/ layout[u].kind = "variable"
                                              \/ /\ layout[u].kind = "parameter"
                                                 /\ layout[u].func = scopeId}}

\* ExistingSymbolNames without the names handed out before
VisibleSymbolNames(S, scopeId) == SymbolsInScope(scopeId)

\* lines 285-288: the visible names and the names handed out in the scope
ExistingSymbolNames(S, scopeId) ==
    SymbolsInScope(scopeId)
        \cup {S.temporaryVariables[scopeId][n] : n \in 1..Len(S.temporaryVariables[scopeId])}

\* lines 289-291: the first iterator name that is free, from index i on
\* (Len + 1: none)
RECURSIVE FirstFreeIterator(_, _)
FirstFreeIterator(existing, i) ==
    IF i <= Len(iteratorVarNames) /\ iteratorVarNames[i] \in existing
    THEN FirstFreeIterator(existing, i + 1)
    ELSE i

\* lines 295-296, 315-316: the first free name prefix_i, from i on
RECURSIVE FirstFreeSuffix(_, _, _)
FirstFreeSuffix(existing, prefix, i) ==
    IF (prefix \o "_" \o ToString(i)) \in existing
    THEN FirstFreeSuffix(existing, prefix, i + 1)
    ELSE prefix \o "_" \o ToString(i)

\* lines 289-300
IteratorName(existing) ==
    IF FirstFreeIterator(existing, 1) > Len(iteratorVarNames)
    THEN FirstFreeSuffix(existing, "i", 2)
    ELSE iteratorVarNames[FirstFreeIterator(existing, 1)]

\* lines 313-318
TemporaryName(existing, proposedName) ==
    IF proposedName \in existing
    THEN FirstFreeSuffix(existing, proposedName, 2)
    ELSE proposedName

\* lines 302-303, 320-321: the name is recorded for the scope and returned
HandOut(S, scopeId, name) ==
    Ret([S EXCEPT !.temporaryVariables[scopeId] = Append(@, name)], name)

addNewIteratorVariable(S, scopeId) ==
    HandOut(S, scopeId, IteratorName(ExistingSymbolNames(S, scopeId)))

addNewTemporaryVariable(S, scopeId, proposedName) ==
    HandOut(S, scopeId, TemporaryName(ExistingSymbolNames(S, scopeId), proposedName))

\* the scopes: 'main' and the functions
ScopeIds == {0} \cup FunctionSlots

\* the names handed out so far, over all scopes
HandedOut(S) == UNION {{<<s, n>> : n \in 1..Len(S.temporaryVariables[s])} : s \in ScopeIds}

Allocated(r, op) ==
    /\ Cardinality(HandedOut(th)) < MaxTemps
    /\ th' = r.S
    /\ answer' = Answer(op, FALSE, NoType, r.val)
    /\ UNCHANGED <<layout, prog, ndecl, scope, pc, k, somePromisesAreResolved, structs>>

AddNewIteratorVariable(scopeId) ==
    Allocated(addNewIteratorVariable(th, scopeId), "addNewIteratorVariable")

AddNewTemporaryVariable(scopeId, proposedName) ==
    Allocated(addNewTemporaryVariable(th, scopeId, proposedName),
              "addNewTemporaryVariable")

\* programs whose variables have the names the allocators choose from
NamedLayout(names, f) ==
    [v \in 1..Len(names) |->
        IF v = f THEN Decl("function", names[v], "any", 0, 0)
        ELSE IF f # 0 /\ v = f + 1 THEN Decl("parameter", names[v], "any", f, 0)
        ELSE Decl("variable", names[v], "any", 0, 0)]

AllocLayouts ==
    {NamedLayout(<<"i", "j", "k", "l", "m", "f", "n">>, 6),
     NamedLayout(<<"tmp", "tmp_2", "f", "i_2">>, 3),
     NamedLayout(<<"a">>, 0)}

ProposedNames == {"tmp", "i"}

AllocInit == InitWith(AllocLayouts)

AllocNext ==
    \/ \E s \in ScopeIds : AddNewIteratorVariable(s)
    \/ \E s \in ScopeIds, name \in ProposedNames : AddNewTemporaryVariable(s, name)

AllocSpec == AllocInit /\ [][AllocNext]_vars

\* ------------------------------------------------------------------------
\* Programs over named and anonymous records: variables declared with an
\* object literal, and object literals that belong to no variable
\* ------------------------------------------------------------------------

NamingLayouts ==
    {NamedLayout(<<"struct_1", "a">>, 0),
     NamedLayout(<<"a", "struct_1">>, 0),
     NamedLayout(<<"a", "b">>, 0)}

ObjectLiterals == {ObjectLiteralExpression(sh) : sh \in Shapes}

NamingInit == InitWith(NamingLayouts)

NamingNext ==
    \/ \E e \in ObjectLiterals \cup {TypedIdentifier(v, DeclaredType(v)) : v \in 1..ndecl} :
            VariableDeclaration(e)
    \/ \E e \in ObjectLiterals : ExpressionStatement(e)
    \/ StartResolve
    \/ ResolveStep
    \/ NextPass
    \/ ReturnStructs

NamingSpec == NamingInit /\ [][NamingNext]_vars

\* ------------------------------------------------------------------------
\* Programs with for-of loops over arrays and maps
\* ------------------------------------------------------------------------

LoopInitializers ==
    {NoNode, ObjectLiteralExpression(<<>>)}
        \cup {ArrayLiteralExpression(n, "number") : n \in 1..MaxElems}

IteratedExpressions == {Identifier(v, "any") : v \in Slots}

LoopInit == InitWith(VariableLayouts)

LoopNext ==
    \/ \E e \in LoopInitializers : VariableDeclaration(e)
    \/ \E v \in Slots : ElementWrite(v, "dynamic", "", NumericLiteral)
    \/ \E v \in Slots, e \in IteratedExpressions : ForOfStatement(v, e)
    \/ \E e \in IteratedExpressions : ForOfDeclaration(e)
    \/ StartResolve
    \/ ResolveStep
    \/ NextPass
    \/ ReturnStructs

LoopSpec == LoopInit /\ [][LoopNext]_vars

\* ------------------------------------------------------------------------
\* Programs that write values of a deferred type through a dynamic key: the
\* value is an untyped variable, whose type is only known to the resolver
\* ------------------------------------------------------------------------

DeferredInitializers ==
    {NoNode, ObjectLiteralExpression(<<>>), ObjectLiteralExpression(<<TsProp("x", "number")>>)}

\* the values written: a number, a variable declared before
DeferredValues ==
    {NumericLiteral} \cup {TypedIdentifier(u, DeclaredType(u)) : u \in 1..ndecl}

DeferredInit == InitWith(VariableLayouts)

DeferredNext ==
    \/ \E e \in DeferredInitializers : VariableDeclaration(e)
    \/ \E v \in Slots : Assignment(v, NumericLiteral)
    \/ \E v \in Slots, e \in DeferredValues : ElementWrite(v, "dynamic", "", e)
    \/ StartResolve
    \/ ResolveStep
    \/ NextPass
    \/ ReturnStructs

DeferredSpec == DeferredInit /\ [][DeferredNext]_vars

\* ------------------------------------------------------------------------
\* Programs over arrays whose element type is known late: literals whose
\* first element has a non-standard type, writes with a numeric key and
\* pushes of a number or of an untyped variable
\* ------------------------------------------------------------------------

ElementInitializers ==
    {NoNode, ArrayLiteralExpression(1, "number"), ArrayLiteralExpression(1, "other")}

\* the variables declared without an initializer, as values
UntypedIdentifiers ==
    {Identifier(u, "any") : u \in {w \in 1..ndecl : prog[DeclarationOf(w)].e.kind = "none"}}

ElementValues == {NumericLiteral} \cup UntypedIdentifiers

ElementInit == InitWith(VariableLayouts)

ElementNext ==
    \/ \E e \in ElementInitializers : VariableDeclaration(e)
    \/ \E v \in Slots : Assignment(v, NumericLiteral)
    \/ \E v \in Slots, e \in ElementValues : ElementWrite(v, "number", "", e)
    \/ \E v \in Slots, e \in ElementValues :
            ExpressionStatement(MethodCall(v, "push", <<e>>, "number"))
    \/ StartResolve
    \/ ResolveStep
    \/ NextPass
    \/ ReturnStructs

ElementSpec == ElementInit /\ [][ElementNext]_vars

\* ------------------------------------------------------------------------
\* Programs that add properties to records: property writes and writes with
\* a string-literal key, of a number, a string or an untyped variable
\* ------------------------------------------------------------------------

MergeInitializers == {NoNode, ObjectLiteralExpression(<<TsProp("x", "number")>>)}

MergeInit == InitWith(VariableLayouts)

MergeNext ==
    \/ \E e \in MergeInitializers : VariableDeclaration(e)
    \/ \E v \in Slots : Assignment(v, NumericLiteral)
    \/ \E v \in Slots, e \in {NumericLiteral, StringLiteral} : PropertyWrite(v, "y", e)
    \/ \E v \in Slots, e \in {NumericLiteral} \cup UntypedIdentifiers :
            ElementWrite(v, "string", "y", e)
    \/ StartResolve
    \/ ResolveStep
    \/ NextPass
    \/ ReturnStructs

MergeSpec == MergeInit /\ [][MergeNext]_vars

TypeOK ==
    /\ pc \in {"collect", "resolve", "done"}
    /\ pc # "collect" => \A v \in Slots : th.variables[v].present


\* ------------------------------------------------------------------------
\* Properties of the resolver
\* ------------------------------------------------------------------------

Done == pc = "done"

IntegerType == Prim(NumberVarType)

\* the statements of the program, as a set
Statements == {prog[i] : i \in 1..Len(prog)}

\* the promise of variable a waits for identifier b
AwaitsIdentifier(a, b) ==
    \E i \in 1..Len(th.variablesData[a].typePromises) :
        th.variablesData[a].typePromises[i].associatedNode = Identifier(b, "any")

\* C1: the resolver terminates: once the loop is entered, it reaches the end
\* of a pass in which no promise was discharged and returns
ResolverTerminates == (pc = "resolve") ~> Done

\* the resolver has returned for a program whose promises wait for each
\* other in a cycle (var a = b; var b = a;)
TerminatedOnCycle ==
    /\ Done
    /\ \E a, b \in Slots : a # b /\ AwaitsIdentifier(a, b) /\ AwaitsIdentifier(b, a)

\* one more pass of the loop body over the variables from key on, with
\* tryResolvePromises called for each of them
RECURSIVE FullPass(_, _)
FullPass(S, key) ==
    IF key > Len(layout) THEN S
    ELSE FullPass(tryResolvePromises(FinalizeType(S, key), key).S, key + 1)

\* what a pass may change: the promises and evidence sets, the return
\* types, the winning types
Resolution(S) ==
    [data |-> S.variablesData,
     returns |-> S.functionReturnTypes,
     types |-> [v \in DOMAIN S.variables |-> S.variables[v].type]]

\* C2: when the loop has exited, one more full pass discharges no promise,
\* changes no evidence set or return type and no winning type
ExitIsFixedPoint == Done => Resolution(FullPass(th, 1)) = Resolution(th)

\* function f(x) { return x; }  var y = f(5);  var z = y;  with the function
\* before, between or after the two declarations
ForwardReference(f, x, y, z) ==
    /\ layout[f].kind = "function"
    /\ layout[x].kind = "parameter"
    /\ layout[y].kind = "variable"
    /\ layout[z].kind = "variable"
    /\ y < z
    /\ Len(prog) = 4
    /\ \E i \in 1..3 :
          /\ prog[i] = Statement("function", f, "", "", NoNode)
          /\ prog[i + 1] = Statement("return", f, "", "", Identifier(x, "any"))
    /\ Statement("var", y, "", "", CallExpression(f, <<NumericLiteral>>, "any"))
          \in Statements
    /\ Statement("var", z, "", "", Identifier(y, "any")) \in Statements

\* C3: for the forward-reference program, in every textual order, the
\* resolver ends with x, the return type of f, y and z all the integer type
ForwardReferenceResolves ==
    Done => \A f, x, y, z \in Slots :
                ForwardReference(f, x, y, z) =>
                    /\ th.variables[x].type = IntegerType
                    /\ th.functionReturnTypes[f] = IntegerType
                    /\ th.variables[y].type = IntegerType
                    /\ th.variables[z].type = IntegerType

\* the evidence set of v without the two fallbacks
Candidates(v) ==
    {th.variablesData[v].assignmentTypes[i].key :
        i \in 1..Len(th.variablesData[v].assignmentTypes)}
        \ {PointerVarType, UniversalVarType}

CallSiteEntry(v) ==
    th.functionCallsData[th.variablesData[v].parameterFuncDeclPos]
                        [th.variablesData[v].parameterIndex + 1]

\* parameter v has a call-site promise that is marked resolved
CallSitePromiseResolved(v) ==
    /\ th.variablesData[v].parameterFuncDeclPos # 0
    /\ th.variablesData[v].parameterIndex + 1
          <= Len(th.functionCallsData[th.variablesData[v].parameterFuncDeclPos])
    /\ CallSiteEntry(v).isPromise
    /\ CallSiteEntry(v).resolved

\* every promise that feeds the evidence set of v is marked resolved
AllPromisesResolved(v) ==
    /\ \A i \in 1..Len(th.variablesData[v].typePromises) :
          th.variablesData[v].typePromises[i].resolved
    /\ th.variablesData[v].parameterFuncDeclPos # 0 => CallSitePromiseResolved(v)

\* a resolver step feeds nothing from a promise that is marked resolved
NoSecondDischarge ==
    pc = "resolve" =>
        /\ \A f \in Slots :
              th.functionReturnsData[f].isPromise /\ th.functionReturnsData[f].resolved
                  => th.functionReturnTypes[f] = th'.functionReturnTypes[f]
        /\ \A v \in Slots :
              AllPromisesResolved(v)
                  => th.variablesData[v].assignmentTypes
                         = th'.variablesData[v].assignmentTypes

\* C10: every promise, of a variable, of a call site or of a return, is
\* discharged at most once: after its resolved flag is set no later pass
\* feeds a type from it into an evidence set or a return type
DischargedOnce == [][NoSecondDischarge]_vars


\* ------------------------------------------------------------------------
\* Properties of the records
\* ------------------------------------------------------------------------

\* the identifiers generateStructure is called with ("": none)
RegistrationNames == {"", "a", "b"}

\* a second call with the same shape returns the record of the first call
\* and leaves the table as the first call left it
SecondCallShares(first, shape, name) ==
    With(generateStructure(first.S, TsType("object", shape), name),
         LAMBDA second :
             /\ second.val = first.val
             /\ second.S.userStructs = first.S.userStructs
             /\ second.S.structs = first.S.structs)

\* two calls with this shape, under any two names, give one record
RegisteredOnce(shape) ==
    \A n1, n2 \in RegistrationNames :
        SecondCallShares(generateStructure(th, TsType("object", shape), n1), shape, n2)

\* the statements that declare a variable with an object literal of this shape
LiteralsOf(shape) ==
    {i \in 1..Len(prog) :
        prog[i].kind = "var" /\ prog[i].e = ObjectLiteralExpression(shape)}

\* the object literals of this shape in the program have one record
LiteralsShare(shape) ==
    \A i, j \in LiteralsOf(shape) :
        DGet(th.objectLiteralsTypes, <<i>>) = DGet(th.objectLiteralsTypes, <<j>>)

\* a second call with the empty shape returns a new record in a new entry
SecondCallAdds(first, name) ==
    With(generateStructure(first.S, TsType("object", <<>>), name),
         LAMBDA second :
             /\ second.val # first.val
             /\ Len(second.S.userStructs) = Len(first.S.userStructs) + 1)

ReturnedRecordsDistinct ==
    Done => \A i, j \in 1..Len(structs) :
                i # j => getStructureBodyString(th, structs[i].properties)
                             # getStructureBodyString(th, structs[j].properties)

\* the Record candidates and the Map(t) candidates of v in S
RecordCandidates(S, v) ==
    {i \in 1..Len(S.variablesData[v].assignmentTypes) :
        IsStruct(S.variablesData[v].assignmentTypes[i].val)}

MapCandidates(S, v, t) ==
    {i \in 1..Len(S.variablesData[v].assignmentTypes) :
        /\ IsDict(S.variablesData[v].assignmentTypes[i].val)
        /\ S.dicts[S.variablesData[v].assignmentTypes[i].val.r].elementType = t}

\* the step visits v[key] = e with a dynamic key
DynamicWrite(v, e) == prog' = Append(prog, Statement("elemwrite", v, "", "dynamic", e))

\* a dynamic-key write of a value of concrete type on a variable that holds
\* a Record candidate marks it isDict, removes its Record candidates and
\* leaves a Map candidate of that type
Conversion ==
    \A v \in Slots, e \in {StringLiteral, NumericLiteral} :
        DynamicWrite(v, e) /\ RecordCandidates(th, v) # {} =>
            /\ th'.variablesData[v].isDict
            /\ RecordCandidates(th', v) = {}
            /\ MapCandidates(th', v, getCType(th, e)) # {}

\* v has a Map candidate
Converted(v) ==
    \E i \in 1..Len(th.variablesData[v].assignmentTypes) :
        IsDict(th.variablesData[v].assignmentTypes[i].val)

\* v has resolved to a Map and requires allocation
ResolvedToMap(v) ==
    /\ IsDict(th.variables[v].type)
    /\ th.variables[v].type \in
          {th.variablesData[v].assignmentTypes[i].val :
              i \in 1..Len(th.variablesData[v].assignmentTypes)}
    /\ th.variables[v].requiresAllocation

\* at the end a converted variable whose only candidate is the Map has
\* resolved to it
OnlyMapResolves ==
    Done => \A v \in Slots :
                Converted(v) /\ Cardinality(Candidates(v)) = 1 => ResolvedToMap(v)

\* at the end every converted variable has resolved to the Map
EveryMapResolves == Done => \A v \in Slots : Converted(v) => ResolvedToMap(v)

\* C8 (as amended): the conversion happens at the write, and the variable
\* resolves to Map(T) with requiresAllocation when Map(T) is the only
\* candidate of its final evidence set
DictionaryConversion == [][Conversion /\ OnlyMapResolves']_vars

\* C8 (as stated): the conversion happens at the write, and the variable
\* then resolves to Map(T) with requiresAllocation
DictionaryConversionResolves == [][Conversion /\ EveryMapResolves']_vars

\* var v = {}; v[key] = "b"; has resolved to Map(string)
ConvertedAndResolved ==
    /\ Done
    /\ \E v \in Slots :
          /\ \E i, j \in 1..Len(prog) :
                /\ i < j
                /\ prog[i] = Statement("var", v, "", "", ObjectLiteralExpression(<<>>))
                /\ prog[j] = Statement("elemwrite", v, "", "dynamic", StringLiteral)
          /\ ResolvedToMap(v)
          /\ th.dicts[th.variables[v].type.r].elementType = Prim(StringVarType)

\* ------------------------------------------------------------------------
\* Properties of the arrays
\* ------------------------------------------------------------------------

\* v is declared with an array literal of n numbers
ArrayLiteralDeclared(v, n) ==
    Statement("var", v, "", "", ArrayLiteralExpression(n, "number")) \in Statements

\* the statements that refer to v
StatementsOn(v) ==
    {st \in Statements : st.v = v \/ (st.kind = "expr" /\ st.e.v = v)}

\* v.push(number) and v.pop()
PushOrPop(v) ==
    {Statement("expr", 0, "", "", MethodCall(v, "push", <<NumericLiteral>>, "number")),
     Statement("expr", 0, "", "", MethodCall(v, "pop", <<>>, "any"))}

\* the type of v is an array of integers
IntegerArray(v) ==
    /\ IsArray(th.variables[v].type)
    /\ th.arrays[th.variables[v].type.r].elementType = IntegerType

\* C7: a variable initialised from an array literal of n integers resolves
\* to a fixed array of capacity n when it is never pushed or popped, and to
\* a dynamic array of integer when a push of an integer or a pop is observed
ArrayLiteralResolves ==
    Done => \A v \in Slots, n \in 1..MaxElems :
                /\ ArrayLiteralDeclared(v, n)
                /\ StatementsOn(v) \subseteq
                      PushOrPop(v) \cup
                          {Statement("var", v, "", "", ArrayLiteralExpression(n, "number"))}
                => /\ IntegerArray(v)
                   /\ IF StatementsOn(v) \cap PushOrPop(v) = {}
                      THEN /\ ~th.arrays[th.variables[v].type.r].isDynamicArray
                           /\ th.arrays[th.variables[v].type.r].capacity = n
                      ELSE /\ th.arrays[th.variables[v].type.r].isDynamicArray
                           /\ Cardinality(Candidates(v)) = 1

\* C9: after the resolver has returned, a variable whose type is a dynamic
\* array or a Map has requiresAllocation, and a variable whose type is a
\* Record has it if and only if an object literal was assigned to it
AllocationFlag ==
    Done => \A v \in Slots :
                /\ IsArray(th.variables[v].type)
                      /\ th.arrays[th.variables[v].type.r].isDynamicArray
                      => th.variables[v].requiresAllocation
                /\ IsDict(th.variables[v].type) => th.variables[v].requiresAllocation
                /\ IsStruct(th.variables[v].type) =>
                      (th.variables[v].requiresAllocation
                          <=> th.variablesData[v].objLiteralAssigned)


\* ------------------------------------------------------------------------
\* Properties of the discharge of promises
\* ------------------------------------------------------------------------

FallbackKeys == {PointerVarType, UniversalVarType}

\* the keys of the evidence set of v in S
EvidenceKeys(S, v) ==
    {S.variablesData[v].assignmentTypes[i].key :
        i \in 1..Len(S.variablesData[v].assignmentTypes)}

\* the step marks promise i of v resolved
NewlyResolved(v, i) ==
    /\ i <= Len(th.variablesData[v].typePromises)
    /\ ~th.variablesData[v].typePromises[i].resolved
    /\ th'.variablesData[v].typePromises[i].resolved

\* a step that marks a promise of v resolved adds no fallback to the
\* evidence set of v
ConcreteDischarge ==
    \A v \in Slots :
        (\E i \in 1..Len(th.variablesData[v].typePromises) : NewlyResolved(v, i))
            => EvidenceKeys(th', v) \cap FallbackKeys \subseteq EvidenceKeys(th, v)

\* getCType of a call of a free function is null or a concrete type
CallYieldsConcrete ==
    \A f \in FunctionSlots :
        ~IsFallback(getCType(th, CallExpression(f, <<NumericLiteral>>, "any")))

\* C11: a promise is discharged only with a concrete type: no step marks a
\* promise resolved with "void *" or "struct js_var *", and getCType of a
\* free-function call is null until the return type of the callee is
\* resolved
DischargedWithConcreteType == [][ConcreteDischarge /\ CallYieldsConcrete']_vars


\* ------------------------------------------------------------------------
\* Properties of the queries
\* ------------------------------------------------------------------------

\* the tables of the object
Tables(S) ==
    [variables |-> S.variables,
     variablesData |-> S.variablesData,
     userStructs |-> S.userStructs,
     structs |-> S.structs,
     functionCallsData |-> S.functionCallsData,
     functionReturnsData |-> S.functionReturnsData,
     functionReturnTypes |-> S.functionReturnTypes,
     arrayLiteralsTypes |-> S.arrayLiteralsTypes,
     objectLiteralsTypes |-> S.objectLiteralsTypes]

\* the step is a call of getCType
CallsGetCType == pc = "done" /\ answer'.op = "getCType"

\* C12: getCType is pure: a call leaves the variables, the evidence sets and
\* promises, the record table, the call and return tables and the literal
\* tables as they were
GetCTypeIsPure == [][CallsGetCType => Tables(th') = Tables(th)]_vars


\* the step is a call of getTypeString
CallsGetTypeString == answer.op = "getTypeString"

\* C17: getTypeString returns the text of its converted source when that is
\* an array, a record, a map or a primitive string, and throws in every other
\* case; what it returns is never empty and never the text of an undefined
\* value
TypeStringOrError ==
    CallsGetTypeString =>
        IF IsArray(answer.type) \/ IsStruct(answer.type) \/ IsDict(answer.type)
              \/ IsString(answer.type)
        THEN /\ ~answer.thrown
             /\ answer.text = GetText(th, answer.type)
             /\ answer.text \notin {"", "undefined"}
        ELSE answer.thrown

\* getTypeString was called with a source that converts to null, and threw
TypeStringRefused ==
    /\ CallsGetTypeString
    /\ answer.thrown
    /\ answer.type = NoType


\* ------------------------------------------------------------------------
\* Determinism
\* ------------------------------------------------------------------------

\* findVariablesRecursively on statement i of a program
VisitStatement(S, st, i) ==
    CASE st.kind = "function" -> StmtFunctionDeclaration(S, st.v, <<i>>)
      [] st.kind = "var" -> StmtVariableDeclaration(S, st.v, st.e, <<i>>)
      [] st.kind = "return" -> StmtReturn(S, st.v, st.e, <<i>>)
      [] st.kind = "assign" -> StmtAssignment(S, st.v, st.e, <<i>>)
      [] st.kind = "propwrite" -> StmtPropertyWrite(S, st.v, st.p, st.e, <<i>>)
      [] st.kind = "elemwrite" -> StmtElementWrite(S, st.v, st.kk, st.p, st.e, <<i>>)
      [] st.kind = "forof" -> StmtForOf(S, st.v, st.e, <<i>>)
      [] st.kind = "forofvar" -> StmtForOfDeclaration(S, st.v, st.e, <<i>>)
      [] OTHER -> VisitExpression(S, st.e, <<i>>)

\* evidence collection over the statements from i on
RECURSIVE VisitStatements(_, _, _)
VisitStatements(S, statements, i) ==
    IF i > Len(statements) THEN S
    ELSE VisitStatements(VisitStatement(S, statements[i], i), statements, i + 1)

\* one pass of the resolver over the variables in ascending declaration
\* position, from key on
RECURSIVE AscendingPass(_, _, _)
AscendingPass(S, key, some) ==
    IF key > Len(layout) THEN Ret(S, some)
    ELSE With(ResolveUnlessSet(FinalizeType(S, key), key, some),
              LAMBDA r : AscendingPass(r.S, key + 1, r.val))

\* the passes, until one discharges nothing
RECURSIVE AscendingPasses(_)
AscendingPasses(S) ==
    With(AscendingPass(S, 1, FALSE),
         LAMBDA r : IF r.val THEN AscendingPasses(r.S) ELSE r.S)

\* another run of the engine on the program of this run
SecondRun == AscendingPasses(VisitStatements(NewTypeHelper(Slots), prog, 1))

\* what a run produces: the winning types and allocation flags, the return
\* types, the names and the contents of the records
Outcome(S) ==
    [variables |-> S.variables,
     returns |-> S.functionReturnTypes,
     userStructs |-> S.userStructs,
     structs |-> S.structs,
     arrays |-> S.arrays,
     dicts |-> S.dicts,
     definitions |-> StructDefinitions(S)]

IsConcreteEntry(entry) ==
    ~entry.isPromise /\ IsType(entry.type) /\ ~IsFallback(entry.type)

\* the call-site evidence of function f for parameter position i
CallSiteOf(S, f, i) ==
    IF i <= Len(S.functionCallsData[f]) THEN S.functionCallsData[f][i] ELSE Undefined

\* the step visits the call site f(arg)
CallVisited(f, arg) ==
    prog' = Append(prog, Statement("expr", 0, "", "", CallExpression(f, <<arg>>, "any")))

\* a recorded concrete type stays; anything else is replaced by the concrete
\* type of a later argument
FirstConcreteArgumentKept ==
    \A f \in FunctionSlots, arg \in CallArguments :
        CallVisited(f, arg) =>
            IF IsConcreteEntry(CallSiteOf(th, f, 1))
            THEN CallSiteOf(th', f, 1) = CallSiteOf(th, f, 1)
            ELSE arg \in {NumericLiteral, StringLiteral}
                    => CallSiteOf(th', f, 1) = TypeValue(getCType(th, arg))

\* C14: per parameter position the call-site evidence is the first concrete
\* argument type observed: a concrete type is never replaced by a later call
\* site, and a recorded fallback ("void *" or "struct js_var *") or promise
\* is replaced as soon as a later call site supplies a concrete type
CallSiteEvidence == [][FirstConcreteArgumentKept]_vars

\* the step visits "return expression" in function f
ReturnVisited(f, expression) ==
    prog' = Append(prog, Statement("return", f, "", "", expression))

\* a recorded concrete return type stays; otherwise a concrete type of the
\* returned expression is recorded, a fallback becomes a promise over the
\* expression, and a bare return records "void"
FirstConcreteReturnKept ==
    \A f \in FunctionSlots, e \in ReturnedExpressions :
        ReturnVisited(f, e) =>
            IF IsConcreteEntry(th.functionReturnsData[f])
            THEN th'.functionReturnsData[f] = th.functionReturnsData[f]
            ELSE th'.functionReturnsData[f] =
                    CASE e = NoNode -> TypeValue(Prim(VoidType))
                      [] e \in {NumericLiteral, StringLiteral} -> TypeValue(getCType(th, e))
                      [] OTHER -> TypePromise(e, FALSE)

\* C15: the return evidence of a function is the first concrete type derived
\* from a return expression: a later return statement, with a value or bare,
\* never replaces a recorded concrete return type; a fallback is stored as a
\* promise over the returned expression; a bare return records "void"
ReturnEvidence == [][FirstConcreteReturnKept]_vars


\* ------------------------------------------------------------------------
\* Properties of the naming allocators
\* ------------------------------------------------------------------------

\* the names handed out in scope s
NamesOf(s) == {th.temporaryVariables[s][n] : n \in 1..Len(th.temporaryVariables[s])}

\* C16: every name returned by addNewIteratorVariable or
\* addNewTemporaryVariable differs from the names visible in the scope and
\* from the names returned before for the same scope: the names handed out
\* in a scope are pairwise distinct and none is a visible name
AllocatedNamesFresh ==
    \A s \in ScopeIds :
        /\ Cardinality(NamesOf(s)) = Len(th.temporaryVariables[s])
        /\ NamesOf(s) \cap SymbolsInScope(s) = {}

\* addNewIteratorVariable has returned i_3 in a scope where the six
\* iterator names and i_2 were taken, i_2 by an earlier call for the scope
SuffixedNamesAllocated ==
    /\ answer.op = "addNewIteratorVariable"
    /\ answer.text = "i_3"
    /\ \E s \in ScopeIds : {"i_2", "i_3"} \subseteq NamesOf(s)


\* ------------------------------------------------------------------------
\* Properties of the record names
\* ------------------------------------------------------------------------

\* every entry of the record table is still there, with its record
RecordsKept ==
    \A i \in 1..Len(th.userStructs) :
        /\ i <= Len(th'.userStructs)
        /\ th'.userStructs[i] = th.userStructs[i]

\* C18: a new record is stored under a name that is not yet a key of the
\* record table: no step replaces or removes an entry of the table
RegistrationKeepsRecords == [][RecordsKept]_vars


\* ------------------------------------------------------------------------
\* Properties of the writes to a property
\* ------------------------------------------------------------------------

\* the values written: a number, a string, an untyped variable
WrittenValues == {NumericLiteral, StringLiteral} \cup {Identifier(v, "any") : v \in Slots}

\* the added properties of v and its promises for property p, after a write
PropertyEvidence(S, v, p) ==
    [added |-> DGet(S.variablesData[v].addedProperties, p),
     promises |-> SelectSeq(S.variablesData[v].typePromises,
                            LAMBDA promise : promise.associatedProperty = p)]

\* v["p"] = e and v.p = e leave the same evidence for property p of v
SameAsPropertyWrite(v, p, e) ==
    PropertyEvidence(StmtElementWrite(th, v, "string", p, e, NextPos), v, p)
        = PropertyEvidence(StmtPropertyWrite(th, v, p, e, NextPos), v, p)

\* C19: at every point of evidence collection and for every declared
\* variable v, a bracket write with a string-literal key, v["p"] = e, gives
\* the addedProperties entry for p that the property write v.p = e gives, for
\* a value of concrete type and for a promise
StringKeyLikePropertyWrite ==
    pc = "collect" =>
        \A v \in 1..ndecl, e \in WrittenValues : SameAsPropertyWrite(v, "x", e)


\* ------------------------------------------------------------------------
\* Properties of the for-of loops
\* ------------------------------------------------------------------------

\* the statements for (x of a) and for (var x of a)
ForOfLoops == {st \in Statements : st.kind \in {"forof", "forofvar"}}

\* the loop variable of every for-of statement has a promise over the
\* iterated expression
LoopVariablePromised ==
    \A st \in ForOfLoops :
        \E i \in 1..Len(th.variablesData[st.v].typePromises) :
            /\ th.variablesData[st.v].typePromises[i].associatedNode = st.e
            /\ th.variablesData[st.v].typePromises[i].element = TRUE

\* the element type of a collection type t in S
ElementTypeOf(S, t) ==
    IF IsArray(t) THEN S.arrays[t.r].elementType ELSE S.dicts[t.r].elementType

\* the step discharges promise i of loop variable x, over collection a
ForOfDischarged(x, i, a) ==
    /\ NewlyResolved(x, i)
    /\ th.variablesData[x].typePromises[i].element = TRUE
    /\ th.variablesData[x].typePromises[i].associatedNode = Identifier(a, "any")

\* a discharge over an array or a map adds the element type to the evidence
\* of the loop variable, and not the collection type
ElementTypeBound ==
    \A x, a \in Slots :
        \A i \in 1..Len(th.variablesData[x].typePromises) :
            /\ ForOfDischarged(x, i, a)
            /\ a # x
            /\ IsArray(th'.variables[a].type) \/ IsDict(th'.variables[a].type)
            => /\ GetText(th', ElementTypeOf(th', th'.variables[a].type))
                     \in EvidenceKeys(th', x)
               /\ GetText(th', th'.variables[a].type)
                     \notin EvidenceKeys(th', x) \ EvidenceKeys(th, x)

\* C20: the loop variable of a for-of statement gets a promise over the
\* iterated expression, and when the promise is discharged the candidate
\* added to the evidence of the loop variable is the element type of the
\* collection, an array of T or a map of T, never the collection type
ForEachBinding == [][LoopVariablePromised' /\ ElementTypeBound]_vars


\* ------------------------------------------------------------------------
\* Properties of the writes of a deferred value
\* ------------------------------------------------------------------------

\* promise i of v was made for the value of a write v[key] = e with a
\* dynamic key
DeferredDynamicWrite(v, i) ==
    /\ th.variablesData[v].typePromises[i].arrayOf
    /\ \E j \in 1..Len(prog) :
          prog[j] = Statement("elemwrite", v, "", "dynamic",
                              th.variablesData[v].typePromises[i].associatedNode)

\* a step that discharges such a promise to type T on a variable that holds
\* a Record candidate removes the Record candidates and leaves a Map(T)
\* candidate
DeferredConversion ==
    \A v \in Slots :
        \A i \in 1..Len(th.variablesData[v].typePromises) :
            /\ DeferredDynamicWrite(v, i)
            /\ NewlyResolved(v, i)
            /\ RecordCandidates(th, v) # {}
            => /\ RecordCandidates(th', v) = {}
               /\ MapCandidates(th', v,
                                getCType(th', th.variablesData[v].typePromises[i].associatedNode))
                     # {}

\* var v = {..}; v[key] = u; are the only statements on v, and the promise
\* over u has been discharged
OnlyDeferredWrite(v) ==
    /\ \E i \in 1..Len(th.variablesData[v].typePromises) :
          DeferredDynamicWrite(v, i) /\ th.variablesData[v].typePromises[i].resolved
    /\ \A st \in StatementsOn(v) :
          \/ st.kind = "var" /\ st.e.kind = "ObjectLiteralExpression"
          \/ st.kind = "elemwrite" /\ st.e.kind = "Identifier" /\ st.e.v # v

\* at the end such a variable has resolved to a Map, as it does when the
\* value written has a concrete type
DeferredMapResolves ==
    Done => \A v \in Slots : OnlyDeferredWrite(v) => ResolvedToMap(v)

\* C21: the Map conversion is deferred when the value of a dynamic-key write
\* is a promise: once the promise is discharged to type T the Record
\* candidate of the variable is replaced by a Map(T) candidate, and the
\* variable resolves to Map(T)
DeferredMapConversion == [][DeferredConversion /\ DeferredMapResolves']_vars


\* ------------------------------------------------------------------------
\* Properties of the returned record definitions
\* ------------------------------------------------------------------------

\* record r, created and registered by generateStructure, is an entry of the
\* returned list, under its name and with its properties
Returned(r) ==
    \E i \in 1..Len(structs) :
        /\ "struct " \o structs[i].name \o " *" = th.structs[r].structName
        /\ structs[i].properties = th.structs[r].properties

\* C22: the list of record definitions figureOutVariablesAndTypes returns
\* has no record without properties, and has every registered record that
\* has a property when the resolver has ended
RecordsReturned ==
    Done => /\ \A i \in 1..Len(structs) : Len(structs[i].properties) > 0
            /\ \A r \in 1..Len(th.structs) :
                  Len(th.structs[r].properties) > 0 => Returned(r)


\* ------------------------------------------------------------------------
\* Properties of the passes of the resolver
\* ------------------------------------------------------------------------

\* a pass in which tryResolvePromises is called for every variable, from key
\* on
RECURSIVE ExhaustivePass(_, _, _)
ExhaustivePass(S, key, some) ==
    IF key > Len(layout) THEN Ret(S, some)
    ELSE With(tryResolvePromises(FinalizeType(S, key), key),
              LAMBDA r : ExhaustivePass(r.S, key + 1, some \/ r.val))

\* such passes, until one discharges nothing
RECURSIVE ExhaustivePasses(_)
ExhaustivePasses(S) ==
    With(ExhaustivePass(S, 1, FALSE),
         LAMBDA r : IF r.val THEN ExhaustivePasses(r.S) ELSE r.S)

\* an iteration of the loop over the variables attempts the discharge of the
\* promises of its variable
EveryVariableTried ==
    pc = "resolve" /\ k <= Len(layout)
        => LoopBody(th, k, somePromisesAreResolved).S
               = tryResolvePromises(FinalizeType(th, k), k).S

\* the resolver ends with the result of the exhaustive passes over the
\* evidence collected from the program
ExhaustiveRescan ==
    Done => Outcome(ExhaustivePasses(VisitStatements(NewTypeHelper(Slots), prog, 1)))
                = Outcome(th)

\* C23: in every pass of the resolver the discharge is attempted for every
\* outstanding promise of every variable, and the result is that of an
\* exhaustive rescan of all promises in every pass
PromisesRescanned == EveryVariableTried /\ ExhaustiveRescan


\* ------------------------------------------------------------------------
\* Monotonicity of the resolver
\* ------------------------------------------------------------------------

\* where a winning type stands: 0 for none yet or "void *", 1 for a concrete
\* type, 2 for "struct js_var *"
Rank(t) ==
    IF ~IsType(t) \/ IsPrim(t, PointerVarType) THEN 0
    ELSE IF IsPrim(t, UniversalVarType) THEN 2
    ELSE 1

\* a step keeps every candidate of v, moves the winning type of v forward or
\* not at all, and keeps requiresAllocation once it is set
VariableMonotone(v) ==
    /\ EvidenceKeys(th, v) \subseteq EvidenceKeys(th', v)
    /\ Rank(th.variables[v].type) <= Rank(th'.variables[v].type)
    /\ Rank(th.variables[v].type) = 1 /\ Rank(th'.variables[v].type) = 1
          => GetText(th', th'.variables[v].type) = GetText(th, th.variables[v].type)
    /\ th.variables[v].requiresAllocation => th'.variables[v].requiresAllocation

\* the return type of f is set once, and changes only from "void *" to
\* another type
ReturnTypeMonotone(f) ==
    th'.functionReturnTypes[f] # th.functionReturnTypes[f]
        => \/ ~IsType(th.functionReturnTypes[f])
           \/ /\ IsPrim(th.functionReturnTypes[f], PointerVarType)
              /\ IsType(th'.functionReturnTypes[f])

Monotone ==
    pc = "resolve" => /\ \A v \in Slots : VariableMonotone(v)
                      /\ \A f \in Slots : ReturnTypeMonotone(f)

\* C24: during resolution no candidate is removed from an evidence set, the
\* winning type of a variable only moves from "void *" to a single concrete
\* type to "struct js_var *", requiresAllocation is never reset, and the
\* return type of a function changes at most once, from "void *" to another
\* type
ResolutionMonotone == [][Monotone]_vars

\* a discharge has added a second candidate to a variable whose winning type
\* was a single concrete type, and a function has got its return type
WinnerOvertaken ==
    /\ pc = "resolve"
    /\ \E v \in Slots :
          /\ Rank(th.variables[v].type) = 1
          /\ Cardinality(Candidates(v)) >= 2
    /\ \E f \in Slots : Rank(th.functionReturnTypes[f]) = 1


\* ------------------------------------------------------------------------
\* Properties of determineType
\* ------------------------------------------------------------------------

\* the right-hand expressions determineType is asked about: none, literals,
\* references of apparent type any, number and a non-standard type, object
\* and array literals
RightHandSides ==
    {NoNode, NumericLiteral, StringLiteral, TrueKeyword, Parenthesized(1)}
        \cup {Identifier(1, flag) : flag \in {"any", "number", "other"}}
        \cup {PropertyAccessExpression(1, "x", flag) : flag \in {"any", "string", "other"}}
        \cup {ElementAccessExpression(1, "number", "", flag) : flag \in {"any", "number"}}
        \cup {CallExpression(1, <<>>, flag) : flag \in {"any", "boolean", "other"}}
        \cup {MethodCall(1, "pop", <<>>, flag) : flag \in {"any", "number"}}
        \cup {ParenthesizedExpression(1, TsType("other", <<>>))}
        \cup {ObjectLiteralExpression(sh) : sh \in Shapes}
        \cup {ArrayLiteralExpression(n, flag) : n \in 0..MaxElems, flag \in {"number", "any"}}

\* property access, bracket access, identifier reference, call
ReferenceKinds ==
    {"PropertyAccessExpression", "ElementAccessExpression", "Identifier",
     "CallExpression", "MethodCall"}

\* the record returned is an entry of the record table
Registered(S, t) == IsStruct(t) /\ \E i \in 1..Len(S.userStructs) : S.userStructs[i].val = t

\* what determineType returned (d) for this right-hand side, whose apparent
\* type converts to the type converted
Decided(d, right, converted) ==
    CASE right.kind = "ObjectLiteralExpression" ->
            ~d.val.isPromise /\ Registered(d.S, d.val.type)
      [] right.kind = "ArrayLiteralExpression" /\ right.n > 0 ->
            /\ ~d.val.isPromise
            /\ IsArray(d.val.type)
            /\ d.S.arrays[d.val.type.r].capacity = right.n
            /\ ~d.S.arrays[d.val.type.r].isDynamicArray
      [] right.kind = "ArrayLiteralExpression" /\ right.n = 0 ->
            d.val = TypeValue(Prim(UniversalVarType))
      [] OTHER ->
            IF IsFallback(converted) /\ right.kind \in ReferenceKinds
            THEN d.val = TypePromise(right, FALSE)
            ELSE d.val = TypeValue(converted)

\* C25: determineType returns a promise if and only if the right-hand side
\* is no object or array literal, its converted apparent type is "void *" or
\* "struct js_var *", and it is a property access, a bracket access, an
\* identifier or a call; an object literal gives a registered record, an
\* array literal with elements a fixed array of as many elements, an empty
\* array literal "struct js_var *"
DecisionRule ==
    \A right \in RightHandSides, left \in {"", "a"} :
        Decided(determineType(th, left, TsType("any", <<>>), right, <<0>>), right,
                convertType(th, IF right.kind # "none" THEN right.ts
                                ELSE TsType("any", <<>>), left).val)

\* evidence collection has called determineType for an object literal, whose
\* record is registered, and for a reference, for which it made a promise
LiteralAndPromiseDecided ==
    /\ \E i \in 1..Len(th.objectLiteralsTypes) :
          Registered(th, th.objectLiteralsTypes[i].val)
    /\ \E v \in Slots : \E i \in 1..Len(th.variablesData[v].typePromises) :
          th.variablesData[v].typePromises[i].associatedNode.kind = "Identifier"


\* ------------------------------------------------------------------------
\* Properties of the writes with a numeric key
\* ------------------------------------------------------------------------

\* the step visits v[0] = e
NumericWrite(v, e) == prog' = Append(prog, Statement("elemwrite", v, "", "number", e))

\* candidate i of v is an array whose element type is still unknown
UnknownElements(S, v, i) ==
    /\ IsArray(S.variablesData[v].assignmentTypes[i].val)
    /\ IsPrim(S.arrays[S.variablesData[v].assignmentTypes[i].val.r].elementType,
              UniversalVarType)

\* the step leaves the number of candidates of v and every candidate of v as
\* it was, but for the element type of the arrays of unknown element type
CandidatesKept(v) ==
    /\ Len(th'.variablesData[v].assignmentTypes) = Len(th.variablesData[v].assignmentTypes)
    /\ \A i \in 1..Len(th.variablesData[v].assignmentTypes) :
          /\ th'.variablesData[v].assignmentTypes[i] = th.variablesData[v].assignmentTypes[i]
          /\ IsArray(th.variablesData[v].assignmentTypes[i].val) /\ ~UnknownElements(th, v, i)
                => th'.arrays[th.variablesData[v].assignmentTypes[i].val.r].elementType
                      = th.arrays[th.variablesData[v].assignmentTypes[i].val.r].elementType

\* the step gives the arrays of v of unknown element type the element type t
ElementsRefined(v, t) ==
    \A i \in 1..Len(th.variablesData[v].assignmentTypes) :
        UnknownElements(th, v, i)
            => th'.arrays[th.variablesData[v].assignmentTypes[i].val.r].elementType = t

\* promise i of v was made for the value of a write v[0] = e
DeferredNumericWrite(v, i) ==
    /\ th.variablesData[v].typePromises[i].arrayOf
    /\ \E j \in 1..Len(prog) :
          prog[j] = Statement("elemwrite", v, "", "number",
                              th.variablesData[v].typePromises[i].associatedNode)
    /\ \A j \in 1..Len(prog) :
          prog[j].kind = "expr" /\ prog[j].e.v = v
              => prog[j].e.args # <<th.variablesData[v].typePromises[i].associatedNode>>

\* a write of a number refines at once; a write of a value of deferred type
\* changes nothing at the write and refines when its promise is discharged
Refinement ==
    \A v \in Slots :
        /\ NumericWrite(v, NumericLiteral)
              => CandidatesKept(v) /\ ElementsRefined(v, IntegerType)
        /\ \A e \in UntypedIdentifiers :
              NumericWrite(v, e) => CandidatesKept(v)
        /\ \A i \in 1..Len(th.variablesData[v].typePromises) :
              DeferredNumericWrite(v, i) /\ NewlyResolved(v, i)
                  => /\ CandidatesKept(v)
                     /\ ElementsRefined(
                            v, getCType(th', th.variablesData[v].typePromises[i].associatedNode))

\* C26: a write target[n] = v with a numeric literal key gives the value's
\* type to the array candidates of the variable whose element type is still
\* unknown, and leaves the other candidates and the number of candidates as
\* they were, also when the value's type is a promise discharged later
ElementTypeRefinement == [][Refinement]_vars


\* ------------------------------------------------------------------------
\* Properties of the merge of the added properties
\* ------------------------------------------------------------------------

\* every added property of v is a property of record r, with its type
MergedInto(v, r) ==
    \A i \in 1..Len(th.variablesData[v].addedProperties) :
        /\ DHas(th.structs[r].properties, th.variablesData[v].addedProperties[i].key)
        /\ DGet(th.structs[r].properties, th.variablesData[v].addedProperties[i].key)
              = th.variablesData[v].addedProperties[i].val

\* at the end the added properties of a variable that resolved to a record
\* are properties of that record
Merged ==
    Done => \A v \in Slots :
                IsStruct(th.variables[v].type) => MergedInto(v, th.variables[v].type.r)

\* a property write v.y = e leaves the evidence set of v as it was
WriteKeepsEvidence ==
    pc = "collect" =>
        \A v \in 1..ndecl, e \in {NumericLiteral, StringLiteral} :
            StmtPropertyWrite(th, v, "y", e, NextPos).variablesData[v].assignmentTypes
                = th.variablesData[v].assignmentTypes

\* C27: when the resolver has ended, every entry of the addedProperties of a
\* variable whose winning type is a record, entries filled in by the
\* discharge of a promise included, is a property of that record with the
\* recorded type; a property write adds no candidate to the evidence set
AddedPropertiesMerged == Merged /\ WriteKeepsEvidence


\* ------------------------------------------------------------------------
\* Properties of the pushes
\* ------------------------------------------------------------------------

\* v.push(e)
Push(v, e) == Statement("expr", 0, "", "", MethodCall(v, "push", <<e>>, "number"))

\* the text of the element type of candidate i of v
ElementText(S, v, i) ==
    GetText(S, S.arrays[S.variablesData[v].assignmentTypes[i].val.r].elementType)

\* no two array candidates of v have the same element type
OneArrayPerElementType(S, v) ==
    \A i, j \in 1..Len(S.variablesData[v].assignmentTypes) :
        /\ i # j
        /\ IsArray(S.variablesData[v].assignmentTypes[i].val)
        /\ IsArray(S.variablesData[v].assignmentTypes[j].val)
        => ElementText(S, v, i) # ElementText(S, v, j)

\* promise i of v was made for the value pushed by v.push(e)
DeferredPush(v, i) ==
    /\ th.variablesData[v].typePromises[i].arrayOf
    /\ \E j \in 1..Len(prog) :
          prog[j] = Push(v, th.variablesData[v].typePromises[i].associatedNode)
    /\ \A j \in 1..Len(prog) :
          prog[j].kind = "elemwrite" /\ prog[j].v = v
              => prog[j].e # th.variablesData[v].typePromises[i].associatedNode

\* the step visits a push on v, or discharges the promise of a push on v
Pushed(v) ==
    \/ \E e \in ElementValues : prog' = Append(prog, Push(v, e))
    \/ \E i \in 1..Len(th.variablesData[v].typePromises) :
          DeferredPush(v, i) /\ NewlyResolved(v, i)

\* a push gives v no second array candidate of an element type it has
Deduplicated ==
    \A v \in Slots :
        Pushed(v) /\ OneArrayPerElementType(th, v) => OneArrayPerElementType(th', v)

\* C28: pushes are deduplicated by the text of the element type: a push of a
\* value whose type is the element type of an array candidate of the
\* variable, fixed or dynamic, adds no second candidate, for a value of
\* concrete type and for a promise discharged later
PushDeduplication == [][Deduplicated]_vars


\* ------------------------------------------------------------------------
\* Properties of the records of different variables
\* ------------------------------------------------------------------------

\* the names of the properties of the literal that declares v
LiteralProperties(v) ==
    {prog[DeclarationOf(v)].e.ts.props[i].name :
        i \in 1..Len(prog[DeclarationOf(v)].e.ts.props)}

\* the names of the properties written on v
WrittenProperties(v) ==
    {th.variablesData[v].addedProperties[i].key :
        i \in 1..Len(th.variablesData[v].addedProperties)}

\* the names of the properties of the record v resolved to
RecordProperties(v) ==
    {th.structs[th.variables[v].type.r].properties[i].key :
        i \in 1..Len(th.structs[th.variables[v].type.r].properties)}

\* C29: when the resolver has ended, the record of a variable that resolved
\* to a record has the properties of the variable's own literal and the
\* properties written on that variable, and none written on another variable
RecordsSeparate ==
    Done => \A v \in 1..ndecl :
                IsStruct(th.variables[v].type) =>
                    RecordProperties(v) = LiteralProperties(v) \cup WrittenProperties(v)


\* ------------------------------------------------------------------------
\* Properties of the keys of the evidence sets
\* ------------------------------------------------------------------------

\* every key of the evidence set of v is the text of the candidate under it
KeysCurrent(S, v) ==
    \A i \in 1..Len(S.variablesData[v].assignmentTypes) :
        S.variablesData[v].assignmentTypes[i].key
            = GetText(S, S.variablesData[v].assignmentTypes[i].val)

\* C30: in every reachable state each key of the assignmentTypes of a
\* variable is the current text of the candidate stored under that key
EvidenceKeysConsistent ==
    \A v \in 1..Len(th.variablesData) : KeysCurrent(th, v)

=============================================================================
